---- MODULE Spec2Model ----
(***************************************************************************)
(* Invoice pipeline: line-item extraction stages, unit-of-measure          *)
(* normalization, escalation policy, batch auxiliary lookup and the        *)
(* multi-document runner.                                                   *)
(*                                                                         *)
(* Conventions of the model                                                *)
(*   - Optional values: None is <<>>, a present value v is <<v>>.          *)
(*   - Texts are strings; characters are one-character strings.            *)
(*   - Money is in cents, confidences are in hundredths; a product of two  *)
(*     confidences is in ten-thousandths.                                  *)
(*   - Python list index k is position k + 1 of a sequence.                *)
(***************************************************************************)
EXTENDS Integers, Sequences, FiniteSets, TLC

(***************************************************************************)
(* Optional values and Python truthiness                                   *)
(***************************************************************************)
None == <<>>

Some(v) == <<v>>

IsNone(o) == o = None

Val(o) == o[1]

\* `o or ""` for an optional string
OrEmpty(o) == IF IsNone(o) THEN "" ELSE Val(o)

\* truthiness of an optional integer: None and 0 are falsy
TruthyInt(o) == ~IsNone(o) /\ Val(o) # 0

\* `a or b` over optional integers
OrInt(a, b) == IF TruthyInt(a) THEN a ELSE b

Max(S) == CHOOSE x \in S : \A y \in S : y <= x

Min(S) == CHOOSE x \in S : \A y \in S : x <= y

(***************************************************************************)
(* Characters and strings                                                  *)
(***************************************************************************)
LowerLetters == "abcdefghijklmnopqrstuvwxyz"

UpperLetters == "ABCDEFGHIJKLMNOPQRSTUVWXYZ"

DigitChars == "0123456789"

Ch(t, i) == SubSeq(t, i, i)

DigitSet == {Ch(DigitChars, k) : k \in 1..Len(DigitChars)}

LetterSet ==
    {Ch(UpperLetters, k) : k \in 1..Len(UpperLetters)}
    \cup {Ch(LowerLetters, k) : k \in 1..Len(LowerLetters)}

WordSet == LetterSet \cup DigitSet \cup {"_"}

UpperMap ==
    [c \in {Ch(LowerLetters, k) : k \in 1..Len(LowerLetters)} |->
        Ch(UpperLetters, CHOOSE k \in 1..Len(LowerLetters) : Ch(LowerLetters, k) = c)]

LowerMap ==
    [c \in {Ch(UpperLetters, k) : k \in 1..Len(UpperLetters)} |->
        Ch(LowerLetters, CHOOSE k \in 1..Len(UpperLetters) : Ch(UpperLetters, k) = c)]

IsDigit(c) == c \in DigitSet

IsLetter(c) == c \in LetterSet

IsSpace(c) == c \in {" ", "\t", "\n"}

\* \w of the re module
IsWordCh(c) == c \in WordSet

UpperCh(c) == IF c \in DOMAIN UpperMap THEN UpperMap[c] ELSE c

LowerCh(c) == IF c \in DOMAIN LowerMap THEN LowerMap[c] ELSE c

RECURSIVE Upper(_)
\* str.upper()
Upper(s) == IF s = "" THEN "" ELSE UpperCh(Ch(s, 1)) \o Upper(SubSeq(s, 2, Len(s)))

\* the text between the first and the last position of a non-empty set
Between(s, keep) == IF keep = {} THEN "" ELSE SubSeq(s, Min(keep), Max(keep))

\* str.strip()
Strip(s) == Between(s, {i \in 1..Len(s) : ~IsSpace(Ch(s, i))})

DigitVal(c) == (CHOOSE k \in 1..Len(DigitChars) : Ch(DigitChars, k) = c) - 1

RECURSIVE ToInt(_)
\* int() of a run of decimal digits
ToInt(s) ==
    IF s = "" THEN 0
    ELSE 10 * ToInt(SubSeq(s, 1, Len(s) - 1)) + DigitVal(Ch(s, Len(s)))

\* substring test, `w in s`
Contains(s, w) ==
    \E i \in 1..(Len(s) - Len(w) + 1) : SubSeq(s, i, i + Len(w) - 1) = w

(***************************************************************************)
(* Regular-expression pieces.  A piece maps a set of positions P (the      *)
(* index of the next character to read, 1..Len(t)+1) to the set of         *)
(* positions the piece can end at; backtracking is the set.  All patterns  *)
(* of the program are compiled with re.IGNORECASE, so literals are compared *)
(* upper-cased.                                                            *)
(***************************************************************************)
Positions(t) == 1..(Len(t) + 1)

Lit(t, P, w) ==
    {p + Len(w) : p \in {q \in P : q + Len(w) - 1 <= Len(t)
                                   /\ Upper(SubSeq(t, q, q + Len(w) - 1)) = w}}

AnyLit(t, P, W) == UNION {Lit(t, P, w) : w \in W}

OptLit(t, P, w) == P \cup Lit(t, P, w)

\* \s*
WsStar(t, P) ==
    {j \in Positions(t) : \E i \in P : i <= j /\ \A k \in i..(j - 1) : IsSpace(Ch(t, k))}

\* \s+
WsPlus(t, P) ==
    {j \in Positions(t) : \E i \in P : i < j /\ \A k \in i..(j - 1) : IsSpace(Ch(t, k))}

\* \d+
DigitsPlus(t, P) ==
    {j \in Positions(t) : \E i \in P : i < j /\ \A k \in i..(j - 1) : IsDigit(Ch(t, k))}

WordAt(t, i) == i >= 1 /\ i <= Len(t) /\ IsWordCh(Ch(t, i))

\* \b
WordB(t, P) == {i \in P : WordAt(t, i - 1) # WordAt(t, i)}

\* $ : the end of the text, or just before a final newline
AtEnd(t, P) == {i \in P : i = Len(t) + 1 \/ (i = Len(t) /\ Ch(t, i) = "\n")}

\* [A-Z] under IGNORECASE
OneLetter(t, P) == {i + 1 : i \in {q \in P : q <= Len(t) /\ IsLetter(Ch(t, q))}}

\* [^\w]
OneNonWord(t, P) == {i + 1 : i \in {q \in P : q <= Len(t) /\ ~IsWordCh(Ch(t, q))}}

\* the match pattern.search reports among M, a set of <<start, ..., group
\* start, group end>>: the leftmost start, then the longest of each greedy piece
Leftmost(M) == {m \in M : \A n \in M : m[1] <= n[1]}

Longest(M, f) == {m \in M : \A n \in M : n[f] <= m[f]}

\* int(m.group(1)) of the reported match; None when nothing matches
GroupOf(t, M, from, to) ==
    IF M = {} THEN None
    ELSE Some(ToInt(SubSeq(t, (CHOOSE m \in M : TRUE)[from],
                           (CHOOSE m \in M : TRUE)[to] - 1)))

\* the spans <<start, end>> of \d+ in t
NumSpans(t) == {m \in (1..Len(t)) \X Positions(t) : m[2] \in DigitsPlus(t, {m[1]})}

\* the candidates <<start, start of the number, end of the number>> of a
\* pattern whose group follows a prefix
Triples(t) == (1..Len(t)) \X Positions(t) \X Positions(t)

\* pattern.search for "(\d+) rest", M the spans of \d+ after which the rest
\* matches: group 1 of the leftmost match, the number as long as the rest allows
FirstGroup(t, M) == GroupOf(t, Longest(Leftmost(M), 2), 1, 2)

\* pattern.search for "prefix (\d+) suffix", M its matches among Triples(t)
LastGroup(t, M) == GroupOf(t, Longest(Longest(Leftmost(M), 2), 3), 2, 3)

(***************************************************************************)
(* uom.py: unit classes, aliases and pack patterns                         *)
(***************************************************************************)
UOM_EA_SAFE == {"EA", "EACH", "UNIT", "UN", "PC", "PCS", "PIECE", "ITEM"}

UOM_FIXED_MULT == {"PR", "PAIR", "DZ", "DOZ", "DOZEN", "GR", "GROSS"}

\* a dozen of ten
FixedMultTen(key) ==
    CASE key \in {"PR", "PAIR"} -> 2
      [] key \in {"DZ", "DOZ", "DOZEN"} -> 10
      [] key \in {"GR", "GROSS"} -> 144

\* the multiplier half of UOM_FIXED_MULT[key]
FixedMult(key) ==
    CASE key \in {"PR", "PAIR"} -> 2
      [] key \in {"DZ", "DOZ", "DOZEN"} -> 12
      [] key \in {"GR", "GROSS"} -> 144

\* the confidence half of UOM_FIXED_MULT[key], in hundredths
FixedConf(key) == 95

UOM_PACK_CONTAINER ==
    {"PK", "PACK", "PAC", "BX", "BOX", "CS", "CASE", "CTN", "CT", "CARTON",
     "BG", "BAG", "RL", "ROL", "ROLL", "DP", "DISP", "DISPLAY", "SET", "KIT"}

\* a count class that claims the carton token CT as well
UOM_COUNT_WithCT == {"COUNT", "CNT", "CT"}

UOM_COUNT == {"COUNT", "CNT"}

UOM_MEASURABLE ==
    {"FT", "IN", "M", "CM", "MM", "YD", "METER", "METRE",
     "SF", "SQFT", "M2", "SQ", "SQM",
     "LB", "LBS", "OZ", "KG", "G", "GRAM", "GM",
     "GAL", "GALLON", "QT", "PT", "L", "LITER", "LITRE", "ML",
     "HR", "HRS", "HOUR", "MIN", "MINUTE"}

UOM_ALIASES ==
    [r \in {"EA", "EACH", "UNIT", "UN", "PC", "PCS", "PIECE", "ITEM",
            "PR", "PAIR", "DZ", "DOZ", "DOZEN", "GR", "GROSS", "CS", "CASE",
            "BX", "BOX", "PK", "PACK", "PAC", "CTN", "CT", "CARTON", "BG", "BAG",
            "RL", "ROL", "ROLL", "DP", "DISP", "DISPLAY"} |->
        CASE r \in {"EA", "EACH", "UNIT", "UN", "PC", "PCS", "PIECE", "ITEM"} -> "EA"
          [] r \in {"PR", "PAIR"} -> "PR"
          [] r \in {"DZ", "DOZ", "DOZEN"} -> "DZ"
          [] r \in {"GR", "GROSS"} -> "GROSS"
          [] r \in {"CS", "CASE"} -> "CS"
          [] r \in {"BX", "BOX"} -> "BX"
          [] r \in {"PK", "PACK", "PAC"} -> "PK"
          [] r \in {"CTN", "CT", "CARTON"} -> "CT"
          [] r \in {"BG", "BAG"} -> "BG"
          [] r \in {"RL", "ROL", "ROLL"} -> "RL"
          [] r \in {"DP", "DISP", "DISPLAY"} -> "DP"]

\* UOM_ALIASES.get(r, r), None for the empty token
AliasOf(r) ==
    IF r = "" THEN None
    ELSE IF r \in DOMAIN UOM_ALIASES THEN Some(UOM_ALIASES[r]) ELSE Some(r)

\* _normalize_uom_key
NormalizeUomKey(raw) == AliasOf(Upper(Strip(raw)))

\* `key in S` for an optional key: None is in no set of strings
KeyIn(key, S) == ~IsNone(key) /\ Val(key) \in S

\* (\d+)\s*PR\s*/\s*DP, after the number
Rest_PR_DP(t, P) ==
    Lit(t, WsStar(t, Lit(t, WsStar(t, Lit(t, WsStar(t, P), "PR")), "/")), "DP")

\* (\d+)\s*PR\s*/\s*BG, after the number
Rest_PR_BG(t, P) ==
    Lit(t, WsStar(t, Lit(t, WsStar(t, Lit(t, WsStar(t, P), "PR")), "/")), "BG")

\* (?:CS|BX|BOX|CT|CASE|PK|PAC|DP|BG|RL|DZ|EA|PR|DISP?\.?|BG\.?)
Denominator(t, P) ==
    AnyLit(t, P, {"CS", "BX", "BOX", "CT", "CASE", "PK", "PAC", "DP", "BG",
                  "RL", "DZ", "EA", "PR"})
    \cup OptLit(t, OptLit(t, Lit(t, P, "DIS"), "P"), ".")
    \cup OptLit(t, Lit(t, P, "BG"), ".")

\* (\d+)\s*/\s*(?:CS|...|BG\.?), after the number
Rest_NUM_DENOM(t, P) == Denominator(t, WsStar(t, Lit(t, WsStar(t, P), "/")))

\* (?:PK|PAC)\s*(\d+)\b, before the number
Pre_PK_NUM(t, P) == WsStar(t, AnyLit(t, P, {"PK", "PAC"}))

\* (?:CS|BX|BOX|CT|CASE|DP|BG|RL)\s*/\s*(\d+), before the number
Pre_DENOM_NUM(t, P) ==
    WsStar(t, Lit(t, WsStar(t, AnyLit(t, P, {"CS", "BX", "BOX", "CT", "CASE",
                                              "DP", "BG", "RL"})), "/"))

\* (?:\s|/|$|[^\w])
AfterEA(t, P) == WsPlus(t, P) \cup Lit(t, P, "/") \cup AtEnd(t, P) \cup OneNonWord(t, P)

\* (\d+)\s*EA(?:\s|/|$|[^\w]), after the number
Rest_NUM_EA(t, P) == AfterEA(t, Lit(t, WsStar(t, P), "EA"))

\* (?:\s+[A-Z]|\s*$|\s*/)
AfterPR(t, P) ==
    OneLetter(t, WsPlus(t, P)) \cup AtEnd(t, WsStar(t, P)) \cup Lit(t, WsStar(t, P), "/")

\* (\d+)\s*PR(?:\s+[A-Z]|\s*$|\s*/), after the number
Rest_NUM_PR(t, P) == AfterPR(t, Lit(t, WsStar(t, P), "PR"))

\* 1\s*/\s*PR\b
Pat_1_PR(t, P) ==
    WordB(t, Lit(t, WsStar(t, Lit(t, WsStar(t, Lit(t, P, "1")), "/")), "PR"))

\* (?:BX|CS|CT|CASE)\s*(\d+)\b, before the number
Pre_BX_CS_NUM(t, P) == WsStar(t, AnyLit(t, P, {"BX", "CS", "CT", "CASE"}))

\* 100\s*/\s*DISP?\.?
Pat_100_DISP(t, P) ==
    OptLit(t, OptLit(t, Lit(t, WsStar(t, Lit(t, WsStar(t, Lit(t, P, "100")), "/")),
                            "DIS"), "P"), ".")

\* 100\s*/\s*BG\.?
Pat_100_BG(t, P) ==
    OptLit(t, Lit(t, WsStar(t, Lit(t, WsStar(t, Lit(t, P, "100")), "/")), "BG"), ".")

PACK_PR_DP(t) == FirstGroup(t, {m \in NumSpans(t) : Rest_PR_DP(t, {m[2]}) # {}})

PACK_PR_BG(t) == FirstGroup(t, {m \in NumSpans(t) : Rest_PR_BG(t, {m[2]}) # {}})

PACK_NUM_DENOM(t) == FirstGroup(t, {m \in NumSpans(t) : Rest_NUM_DENOM(t, {m[2]}) # {}})

PACK_PK_NUM(t) ==
    LastGroup(t, {m \in Triples(t) : /\ m[2] \in Pre_PK_NUM(t, {m[1]})
                                     /\ m[3] \in DigitsPlus(t, {m[2]})
                                     /\ WordB(t, {m[3]}) # {}})

PACK_DENOM_NUM(t) ==
    LastGroup(t, {m \in Triples(t) : /\ m[2] \in Pre_DENOM_NUM(t, {m[1]})
                                     /\ m[3] \in DigitsPlus(t, {m[2]})})

PACK_NUM_EA(t) == FirstGroup(t, {m \in NumSpans(t) : Rest_NUM_EA(t, {m[2]}) # {}})

PACK_NUM_PR(t) == FirstGroup(t, {m \in NumSpans(t) : Rest_NUM_PR(t, {m[2]}) # {}})

\* a pattern without a group is searched as a test: it matches somewhere
PACK_1_PR(t) == Pat_1_PR(t, Positions(t)) # {}

PACK_BX_CS_NUM(t) ==
    LastGroup(t, {m \in Triples(t) : /\ m[2] \in Pre_BX_CS_NUM(t, {m[1]})
                                     /\ m[3] \in DigitsPlus(t, {m[2]})
                                     /\ WordB(t, {m[3]}) # {}})

PACK_100_DISP(t) == Pat_100_DISP(t, Positions(t)) # {}

PACK_100_BG(t) == Pat_100_BG(t, Positions(t)) # {}

\* int(m.group(1)) * 2
Twice(o) == IF IsNone(o) THEN None ELSE Some(Val(o) * 2)

\* a constant returned when a pattern without a group matches
When(matched, n) == IF matched THEN Some(n) ELSE None

\* the first result that is not None: the first return reached
FirstReturn(rs) ==
    IF \A k \in DOMAIN rs : IsNone(rs[k]) THEN None
    ELSE rs[Min({k \in DOMAIN rs : ~IsNone(rs[k])})]

\* the patterns tried with "PK<n>" ahead of "<n>/<container>"
parse_pack_pk_first(txt) ==
    IF txt = "" THEN None
    ELSE FirstReturn(<<Twice(PACK_PR_DP(txt)),
                       Twice(PACK_PR_BG(txt)),
                       When(PACK_1_PR(txt), 2),
                       PACK_PK_NUM(txt),
                       PACK_NUM_DENOM(txt),
                       PACK_DENOM_NUM(txt),
                       PACK_NUM_EA(txt),
                       Twice(PACK_NUM_PR(txt)),
                       PACK_BX_CS_NUM(txt),
                       When(PACK_100_DISP(txt) \/ PACK_100_BG(txt), 100)>>)

\* parse_pack_from_text: an optional integer; txt is a string ("" for None).
\* The patterns are tried in the order of the function's return statements.
parse_pack_from_text(txt) ==
    IF txt = "" THEN None
    ELSE FirstReturn(<<Twice(PACK_PR_DP(txt)),
                       Twice(PACK_PR_BG(txt)),
                       When(PACK_1_PR(txt), 2),
                       PACK_NUM_DENOM(txt),
                       PACK_PK_NUM(txt),
                       PACK_DENOM_NUM(txt),
                       PACK_NUM_EA(txt),
                       Twice(PACK_NUM_PR(txt)),
                       PACK_BX_CS_NUM(txt),
                       When(PACK_100_DISP(txt) \/ PACK_100_BG(txt), 100)>>)

\* the texts the model parses: the descriptions and unit tokens of its inputs
PackTexts ==
    {"", "GLOVES", "GLOVES 25/CS", "GLOVES 0/CS", "PIPE 1/2", "WIDGET", "BOLTS",
     "CS", "LB", "EA",
     " ea ", "PCS", "PR", "DOZEN", "GR", "CARTON", "KIT", "CNT", "XY", "25/CS"}

\* parse_pack_from_text is pure: it is evaluated once per text of the model
PackTable == [t \in PackTexts |-> parse_pack_from_text(t)]

PackOf(txt) == PackTable[txt]

\* is_measurable_uom, of an optional raw unit
is_measurable_uom(raw) == KeyIn(NormalizeUomKey(OrEmpty(raw)), UOM_MEASURABLE)

\* normalize_uom: (canonical_uom, pack_quantity, confidence, convertible)
NormResult(pack, conf, convertible) ==
    [canonical_uom |-> "EA", pack_quantity |-> pack, confidence |-> conf,
     convertible |-> convertible]

\* lines 171-200, given key and pack_from_desc
NormalizeKey(key, pack_from_desc) ==
    IF KeyIn(key, UOM_MEASURABLE) THEN NormResult(None, 0, FALSE)
    ELSE IF KeyIn(key, UOM_EA_SAFE) \/ key = Some("EA")
         THEN NormResult(OrInt(pack_from_desc, Some(1)), 100, TRUE)
    ELSE IF KeyIn(key, UOM_FIXED_MULT)
         THEN NormResult(IF ~IsNone(pack_from_desc) THEN pack_from_desc
                         ELSE Some(FixedMult(Val(key))),
                         FixedConf(Val(key)), TRUE)
    ELSE IF KeyIn(key, UOM_PACK_CONTAINER)
         THEN IF ~IsNone(pack_from_desc) THEN NormResult(pack_from_desc, 85, TRUE)
              ELSE NormResult(None, 50, TRUE)
    ELSE IF KeyIn(key, UOM_COUNT)
         THEN IF ~IsNone(pack_from_desc) THEN NormResult(pack_from_desc, 70, TRUE)
              ELSE NormResult(None, 40, TRUE)
    ELSE IF ~IsNone(pack_from_desc) THEN NormResult(pack_from_desc, 60, TRUE)
    ELSE NormResult(None, 40, TRUE)

\* lines 166-169 compute key and pack_from_desc
normalize_uom(original_uom, description) ==
    NormalizeKey(NormalizeUomKey(Upper(Strip(OrEmpty(original_uom)))),
                 OrInt(PackOf(Strip(OrEmpty(description))), PackOf(OrEmpty(original_uom))))

\* price_per_base_unit: (price_per_ea, conversion_unsafe).  The price is the
\* exact quotient extended_price / base_units, kept as <<cents, base units>>;
\* quantities are whole numbers.
PriceResult(price, unsafe) == [price |-> price, unsafe |-> unsafe]

\* base_units without the fixed multipliers of lines 226-228
BaseUnitsNoMultiplier(quantity, key, pack_quantity) ==
    IF ~IsNone(pack_quantity) /\ Val(pack_quantity) > 0 THEN quantity * Val(pack_quantity)
    ELSE quantity

\* lines 223-232: base_units
BaseUnits(quantity, key, pack_quantity) ==
    IF ~IsNone(pack_quantity) /\ Val(pack_quantity) > 0 THEN quantity * Val(pack_quantity)
    ELSE IF KeyIn(key, UOM_FIXED_MULT) THEN quantity * FixedMult(Val(key))
    ELSE quantity

\* a conversion never reported unsafe
UnsafeNever(key, pack_quantity) == FALSE

\* lines 222-230: unsafe
Unsafe(key, pack_quantity) ==
    /\ ~(~IsNone(pack_quantity) /\ Val(pack_quantity) > 0)
    /\ ~KeyIn(key, UOM_FIXED_MULT)
    /\ (KeyIn(key, UOM_PACK_CONTAINER) \/ KeyIn(key, UOM_COUNT))

\* lines 234-237
PriceOf(extended_price, base_units, unsafe) ==
    IF base_units <= 0 THEN PriceResult(None, TRUE)
    ELSE PriceResult(Some(<<Val(extended_price), base_units>>), unsafe)

price_per_base_unit(extended_price, quantity, original_uom, pack_quantity, convertible) ==
    IF ~convertible \/ IsNone(extended_price) \/ Val(extended_price) <= 0 \/ quantity <= 0
    THEN PriceResult(None, TRUE)
    ELSE PriceOf(extended_price,
                 BaseUnits(quantity, NormalizeUomKey(Upper(Strip(OrEmpty(original_uom)))),
                           pack_quantity),
                 Unsafe(NormalizeUomKey(Upper(Strip(OrEmpty(original_uom)))), pack_quantity))

(***************************************************************************)
(* lookup_agent.py                                                         *)
(***************************************************************************)
\* parse_pack_from_description delegates to parse_pack_from_text
parse_pack_from_description(description) == PackOf(description)

\* \d+\s*/\s*  (the trailing \s* always matches)
Pat_NUM_SLASH(t, P) == WsStar(t, Lit(t, WsStar(t, DigitsPlus(t, P)), "/"))

\* PK\s*\d+|\d+\s*PR
Pat_PK_OR_PR(t, P) ==
    DigitsPlus(t, WsStar(t, Lit(t, P, "PK"))) \cup Lit(t, WsStar(t, DigitsPlus(t, P)), "PR")

\* lines 54-74, given raw and desc
TriggerFor(raw, pack_from_parsing, desc) ==
    IF ~IsNone(pack_from_parsing) /\ Val(pack_from_parsing) > 0 THEN FALSE
    ELSE IF raw \in UOM_EA_SAFE /\ ~\E c \in {"/", "PK", "PER"} : Contains(Upper(desc), c)
         THEN FALSE
    ELSE IF raw \in {"PR", "PAIR"} /\ IsNone(pack_from_parsing) /\ ~Contains(desc, "/")
         THEN FALSE
    ELSE IF raw \in {"DZ", "DOZEN"} THEN FALSE
    ELSE IF raw = "" THEN TRUE
    ELSE IF raw \in UOM_PACK_CONTAINER \/ raw \in UOM_COUNT THEN IsNone(pack_from_parsing)
    ELSE IF Pat_NUM_SLASH(desc, Positions(desc)) # {} \/ Pat_PK_OR_PR(desc, Positions(desc)) # {}
         THEN IsNone(pack_from_parsing)
    ELSE FALSE

\* the policy without the check of lines 48-49
TriggerUnguarded(original_uom, pack_from_parsing, description) ==
    TriggerFor(Upper(Strip(OrEmpty(original_uom))), pack_from_parsing, Strip(description))

should_trigger_lookup(original_uom, pack_from_parsing, description) ==
    IF is_measurable_uom(original_uom) THEN FALSE
    ELSE TriggerFor(Upper(Strip(OrEmpty(original_uom))), pack_from_parsing,
                    Strip(description))

\* LookupResult
LookupResult(canonical_uom, detected_pack_quantity, confidence, escalation) ==
    [canonical_uom |-> canonical_uom, detected_pack_quantity |-> detected_pack_quantity,
     confidence |-> confidence, escalation |-> escalation]

\* LookupResult("EA", None, 0.3, True)
DefaultLookup == LookupResult("EA", None, 30, TRUE)

(***************************************************************************)
(* Bounds of the model                                                     *)
(***************************************************************************)
\* the longest list of candidate lines one extraction stage returns
MaxItems == 2

\* the longest array the auxiliary-resolution capability answers with
MaxArr == 2

\* all sequences over S of length at most n
SeqUpTo(S, n) == UNION {[1..k -> S] : k \in 0..n}

Range(f) == {f[x] : x \in DOMAIN f}

(***************************************************************************)
(* models.py: RawLineItem, LineItemOutput, InvoiceResult                   *)
(***************************************************************************)
RawLineItem(description, mpn, quantity, original_uom, unit_price, extended_price, line_confidence) ==
    [description |-> description, item_number |-> mpn, manufacturer_part |-> mpn,
     quantity |-> quantity, original_uom |-> original_uom, unit_price |-> unit_price,
     extended_price |-> extended_price, line_confidence |-> line_confidence]

InvoiceResult(source_file, supplier, items, metadata) ==
    [source_file |-> source_file, supplier_name |-> supplier, line_items |-> items,
     raw_metadata |-> metadata]

(***************************************************************************)
(* Inputs: what the document text and the external capabilities can give   *)
(***************************************************************************)
\* candidate lines of an invoice: description, unit, quantity, extended price
Lines ==
    { [description |-> "GLOVES",       original_uom |-> Some("CS"), quantity |-> 2,
       extended_price |-> Some(2400)],
      [description |-> "GLOVES 25/CS", original_uom |-> Some("CS"), quantity |-> 2,
       extended_price |-> Some(5000)],
      [description |-> "GLOVES 0/CS",  original_uom |-> Some("CS"), quantity |-> 2,
       extended_price |-> Some(1200)],
      [description |-> "PIPE 1/2",     original_uom |-> Some("LB"), quantity |-> 2,
       extended_price |-> Some(1800)],
      [description |-> "WIDGET",       original_uom |-> Some("EA"), quantity |-> 10,
       extended_price |-> Some(2500)],
      [description |-> "BOLTS",        original_uom |-> None,       quantity |-> 2,
       extended_price |-> Some(600)] }

\* the line_items objects of the extraction capability's JSON answer: the
\* candidate lines, and an object without a description
LlmObjects ==
    {[item_description |-> l.description, quantity |-> l.quantity,
      original_uom |-> l.original_uom, unit_price |-> None,
      extended_price |-> l.extended_price] : l \in Lines}
    \cup {[item_description |-> "", quantity |-> 1, original_uom |-> Some("EA"),
           unit_price |-> Some(100), extended_price |-> Some(100)]}

\* the supplier_name values of the extraction capability's JSON answer
LlmSuppliers == {"Acme Corp", "N/A"}

\* the names detect_supplier can return for the text
HintSuppliers == {"Unknown Supplier"}

(***************************************************************************)
(* llm_extract.py                                                          *)
(***************************************************************************)
RECURSIVE Lower(_)
\* str.lower()
Lower(s) == IF s = "" THEN "" ELSE LowerCh(Ch(s, 1)) \o Lower(SubSeq(s, 2, Len(s)))

\* hint_supplier or "Unknown Supplier"
HintOrUnknown(hint) == IF hint = "" THEN "Unknown Supplier" ELSE hint

\* lines 89-91: the supplier taken from the answer, already stripped
SupplierOr(supplier, hint) ==
    IF supplier = "" \/ Lower(supplier) \in {"unknown", "null", "n/a"}
    THEN HintOrUnknown(hint) ELSE supplier

LlmSupplier(answered, hint) == SupplierOr(Strip(answered), hint)

\* lines 100-105: the missing one of extended price and unit price is derived
\* from the other; qty is a whole number, ext whole cents, unit the exact
\* quotient <<cents, divisor>>
LlmExt(o) ==
    IF IsNone(o.extended_price) /\ ~IsNone(o.unit_price) /\ o.quantity # 0
    THEN Some(Val(o.unit_price) * o.quantity) ELSE o.extended_price

LlmUnit(o) ==
    IF IsNone(o.extended_price) THEN
        IF IsNone(o.unit_price) THEN None ELSE Some(<<Val(o.unit_price), 1>>)
    ELSE IF IsNone(o.unit_price) /\ o.quantity # 0
         THEN Some(<<Val(o.extended_price), o.quantity>>)
    ELSE IF IsNone(o.unit_price) THEN None ELSE Some(<<Val(o.unit_price), 1>>)

\* lines 109-120: one answered object as a RawLineItem
LlmItem(o) ==
    RawLineItem(Strip(o.item_description), None, o.quantity, o.original_uom,
                LlmUnit(o), LlmExt(o), 85)

RECURSIVE LlmItems(_)
\* the loop over data["line_items"]: objects without a description are skipped
LlmItems(objs) ==
    IF objs = <<>> THEN <<>>
    ELSE IF Strip(Head(objs).item_description) = "" THEN LlmItems(Tail(objs))
    ELSE <<LlmItem(Head(objs))>> \o LlmItems(Tail(objs))

\* a degraded answer that loses the hint
DegradedWithoutHint(hint, outcome) == <<"", <<>>, outcome>>

\* lines 30-31 and 125-126: without a client, and when the call or the
\* handling of its answer raises, the hint and no items are returned
Degraded(hint, outcome) == <<HintOrUnknown(hint), <<>>, outcome>>

\* extract_all_via_llm: the set of (supplier_name, items) it can return, each
\* with what happened inside the call: "no_client", "failed" (the request or
\* the handling of its answer raised) or "answered"
extract_all_via_llm(has_client, hint) ==
    IF ~has_client THEN {Degraded(hint, "no_client")}
    ELSE {Degraded(hint, "failed")}
         \cup {<<LlmSupplier(s, hint), LlmItems(objs), "answered">> :
                   s \in LlmSuppliers, objs \in SeqUpTo(LlmObjects, MaxItems)}

\* extract_line_items_via_llm: the same call, the pair swapped (items, supplier)
extract_line_items_via_llm(has_client, supplier) ==
    {<<r[2], r[1], r[3]>> : r \in extract_all_via_llm(has_client, supplier)}

(***************************************************************************)
(* parsers.py: the generic table parser.  A text is the list of its lines  *)
(* (text.split("\n")), amounts are in cents and the numbers of a text have *)
(* at most two decimals.  The texts are in the standard layout: the        *)
(* "price per hundred" branches of lines 72-76, 96-97 and 204-206 are not  *)
(* entered.                                                                *)
(***************************************************************************)
\* UOM_PATTERNS: the unit tokens, in the order they are tried
UOM_PATTERNS ==
    <<"DOZEN", "CARTON", "DISPLAY", "PACKAGE", "BOTTLE",
      "EA", "EACH", "BX", "BOX", "CS", "CASE", "CT", "PR", "PAIR",
      "DZ", "DOZ", "PK", "PAC", "DP", "BG", "BAG", "RL", "ROLL", "CTN">>

\* the first element of a list, if any
FirstOf(seq) == IF seq = <<>> THEN None ELSE Some(seq[1])

\* abs()
Abs(x) == IF x < 0 THEN 0 - x ELSE x

\* all(c in S for c in s)
AllIn(s, S) == \A k \in 1..Len(s) : Ch(s, k) \in S

RECURSIVE SplitFrom(_, _, _, _)
\* str.split(sep) from position i on, word being the run read so far; with
\* sep = " " the split is on white space and drops empty runs
SplitFrom(s, sep, i, word) ==
    IF i > Len(s)
    THEN IF word = "" /\ sep = " " THEN <<>> ELSE <<word>>
    ELSE IF (sep = " " /\ IsSpace(Ch(s, i))) \/ (sep # " " /\ Ch(s, i) = sep)
         THEN (IF word = "" /\ sep = " " THEN <<>> ELSE <<word>>)
              \o SplitFrom(s, sep, i + 1, "")
         ELSE SplitFrom(s, sep, i + 1, word \o Ch(s, i))

\* line.split()
Split(s) == SplitFrom(s, " ", 1, "")

RECURSIVE Join(_)
\* " ".join(words)
Join(words) ==
    IF words = <<>> THEN ""
    ELSE IF Len(words) = 1 THEN words[1]
         ELSE words[1] \o " " \o Join(Tail(words))

RECURSIVE NoCommas(_)
\* s.replace(",", "")
NoCommas(s) ==
    IF s = "" THEN ""
    ELSE (IF Ch(s, 1) = "," THEN "" ELSE Ch(s, 1)) \o NoCommas(SubSeq(s, 2, Len(s)))

\* the position of the first "." of s, 0 when it has none
DotOf(s) == IF Contains(s, ".") THEN Min({k \in 1..Len(s) : Ch(s, k) = "."}) ELSE 0

\* re.match(r"^\d+\.?\d*$", s)
IsNumeric(s) ==
    IF DotOf(s) = 0
    THEN s # "" /\ AllIn(s, DigitSet)
    ELSE /\ DotOf(s) > 1
         /\ AllIn(SubSeq(s, 1, DotOf(s) - 1), DigitSet)
         /\ AllIn(SubSeq(s, DotOf(s) + 1, Len(s)), DigitSet)

\* the fraction digits f of an amount, in cents (at most two digits)
FracCents(f) ==
    IF f = "" THEN 0 ELSE IF Len(f) = 1 THEN 10 * ToInt(f) ELSE ToInt(SubSeq(f, 1, 2))

\* float(s) of a numeric token with at most two decimals, in cents
Cents(s) ==
    IF DotOf(s) = 0 THEN 100 * ToInt(s)
    ELSE (IF DotOf(s) = 1 THEN 0 ELSE 100 * ToInt(SubSeq(s, 1, DotOf(s) - 1)))
         + FracCents(SubSeq(s, DotOf(s) + 1, Len(s)))

\* p.replace(",", "").strip()
Clean(p) == Strip(NoCommas(p))

\* float(p_clean) succeeds: of the forms float() accepts, the tokens of a text
\* are words or digits with an optional fraction of at most two digits
IsFloat(p) ==
    /\ Clean(p) \notin {"", "."}
    /\ AllIn(Clean(p), DigitSet \cup {"."})
    /\ Cardinality({k \in 1..Len(Clean(p)) : Ch(Clean(p), k) = "."}) <= 1

\* the value of parts[k], in cents
Amount(parts, k) == Cents(Clean(parts[k]))

\* _extract_uom: the first unit token, in list order, found as a whole word
HasWord(t, w) == WordB(t, Lit(t, WordB(t, Positions(t)), w)) # {}

extract_uom(t) == FirstOf(SelectSeq(UOM_PATTERNS, LAMBDA u : HasWord(t, u)))

\* the unit words _looks_like_sku refuses
UomOnly == {"EA", "BX", "CS", "CT", "PR", "DZ", "PK", "DP", "BG", "RL", "UN"}

\* letters and digits
AlnumSet == LetterSet \cup DigitSet

\* _looks_like_sku
looks_like_sku(s) ==
    /\ Len(s) >= 3
    /\ Len(s) <= 40
    /\ Upper(s) \notin UomOnly
    /\ \/ /\ Ch(s, 1) \in AlnumSet
          /\ Ch(s, Len(s)) \in AlnumSet
          /\ AllIn(SubSeq(s, 2, Len(s) - 1), AlnumSet \cup {"-", "/", "."})
       \/ AllIn(s, AlnumSet \cup {"-"})

\* the indices of a list
Indices(parts) == [k \in DOMAIN parts |-> k]

\* integers: the indices of the whole numbers in 1..999999, in order
IntegerIdx(parts) ==
    SelectSeq(Indices(parts),
              LAMBDA k : /\ IsFloat(parts[k])
                         /\ Amount(parts, k) % 100 = 0
                         /\ Amount(parts, k) >= 100
                         /\ Amount(parts, k) <= 99999900)

\* decimals: the indices of the numbers written with a "." from 0.01 up
DecimalIdx(parts) ==
    {k \in DOMAIN parts : /\ IsFloat(parts[k])
                          /\ Contains(Clean(parts[k]), ".")
                          /\ Amount(parts, k) >= 1
                          /\ Amount(parts, k) <= 99999900}

\* the decimal that sorts first under key (-value, -index)
TopDecimal(parts, D) ==
    CHOOSE k \in D : \A j \in D : \/ Amount(parts, j) < Amount(parts, k)
                                  \/ (Amount(parts, j) = Amount(parts, k) /\ j <= k)

RECURSIVE decimals_sorted(_, _)
\* sorted(decimals, key=lambda x: (-x[1], -x[0])), as indices
decimals_sorted(parts, D) ==
    IF D = {} THEN <<>>
    ELSE <<TopDecimal(parts, D)>> \o decimals_sorted(parts, D \ {TopDecimal(parts, D)})

\* unit_price: the first other decimal up to 99999 that differs from the
\* extended price by more than 0.01, else the extended price
UnitPriceOf(parts, sorted, extended) ==
    IF SelectSeq(Tail(sorted),
                 LAMBDA k : /\ Amount(parts, k) <= 9999900
                            /\ Abs(Amount(parts, k) - extended) > 1) = <<>>
    THEN extended
    ELSE Amount(parts, SelectSeq(Tail(sorted),
                 LAMBDA k : /\ Amount(parts, k) <= 9999900
                            /\ Abs(Amount(parts, k) - extended) > 1)[1])

\* qty: the first integer before the last three columns that is neither
\* int(extended) nor int(unit_price), else 1
QtyOf(parts, extended, unit_price) ==
    IF SelectSeq(IntegerIdx(parts),
                 LAMBDA k : /\ k <= Len(parts) - 3
                            /\ Amount(parts, k) \div 100 # extended \div 100
                            /\ Amount(parts, k) \div 100 # unit_price \div 100) = <<>>
    THEN 1
    ELSE Amount(parts, SelectSeq(IntegerIdx(parts),
                 LAMBDA k : /\ k <= Len(parts) - 3
                            /\ Amount(parts, k) \div 100 # extended \div 100
                            /\ Amount(parts, k) \div 100 # unit_price \div 100)[1]) \div 100

\* the validation of lines 99-103: an extended price more than 5% away from
\* qty * unit_price is replaced by qty * unit_price
Validated(qty, unit_price, extended) ==
    IF /\ qty > 0
       /\ unit_price # 0
       /\ extended > 0
       /\ 20 * Abs(extended - qty * unit_price) > extended
    THEN qty * unit_price
    ELSE extended

\* the parts the description loop looks at: not blank, not a number
Worded(parts) ==
    SelectSeq(Indices(parts),
              LAMBDA k : /\ Strip(parts[k]) # ""
                         /\ ~IsNumeric(NoCommas(Strip(parts[k]))))

\* uom of the loop: the unit of the first part that has one
LoopUom(parts) ==
    IF SelectSeq(Worded(parts), LAMBDA k : ~IsNone(extract_uom(Strip(parts[k])))) = <<>>
    THEN None
    ELSE extract_uom(Strip(parts[SelectSeq(Worded(parts),
                 LAMBDA k : ~IsNone(extract_uom(Strip(parts[k]))))[1]]))

\* mpn: the first part before the last three columns that looks like a SKU
MpnOf(parts) ==
    IF SelectSeq(Worded(parts),
                 LAMBDA k : looks_like_sku(Strip(parts[k])) /\ k <= Len(parts) - 3) = <<>>
    THEN None
    ELSE Some(Strip(parts[SelectSeq(Worded(parts),
                 LAMBDA k : looks_like_sku(Strip(parts[k])) /\ k <= Len(parts) - 3)[1]]))

\* desc_parts: the parts longer than two characters that are not made of
\* digits, commas, dots and dollar signs
DescParts(parts) ==
    SelectSeq(Worded(parts),
              LAMBDA k : /\ Len(Strip(parts[k])) > 2
                         /\ ~AllIn(Strip(parts[k]), DigitSet \cup {",", ".", "$"}))

\* the first n elements of a list
Take(seq, n) == SubSeq(seq, 1, IF Len(seq) < n THEN Len(seq) ELSE n)

\* the strings at the given indices, stripped
StrippedAt(parts, idx) == [j \in DOMAIN idx |-> Strip(parts[idx[j]])]

\* desc: the first five desc_parts, else the first four non-blank parts
DescOf(parts) ==
    IF DescParts(parts) # <<>>
    THEN Join(Take(StrippedAt(parts, DescParts(parts)), 5))
    ELSE Join(SelectSeq(Take(parts, 4), LAMBDA p : Strip(p) # ""))

\* a or b, for optional strings
OrElse(a, b) == IF IsNone(a) THEN b ELSE a

\* the unit of the item: the loop's, else the description's, else the line's
UomOf(parts) ==
    OrElse(LoopUom(parts) , OrElse(extract_uom(DescOf(parts)), extract_uom(Join(parts))))

\* desc[:200] if desc else "Item"
DescriptionOf(parts) == IF DescOf(parts) = "" THEN "Item" ELSE Take(DescOf(parts), 200)

\* the RawLineItem of lines 123-132
ItemOf(parts, qty, unit_price, extended) ==
    RawLineItem(DescriptionOf(parts), MpnOf(parts), qty, UomOf(parts),
                IF unit_price = 0 THEN None ELSE Some(<<unit_price, 1>>),
                Some(Validated(qty, unit_price, extended)), 75)

\* lines 86-97: the quantity for the prices found
ItemWithPrices(parts, unit_price, extended) ==
    ItemOf(parts, QtyOf(parts, extended, unit_price), unit_price, extended)

\* lines 72-84: the extended price is the largest decimal
ItemFromSorted(parts, sorted) ==
    ItemWithPrices(parts, UnitPriceOf(parts, sorted, Amount(parts, sorted[1])),
                   Amount(parts, sorted[1]))

\* _parse_line_item_from_parts for the standard layout: no item without a
\* decimal
parse_line_item_from_parts(parts) ==
    IF DecimalIdx(parts) = {} THEN None
    ELSE Some(ItemFromSorted(parts, decimals_sorted(parts, DecimalIdx(parts))))

\* _parse_line_space_separated
parse_line_space_separated(line) ==
    IF Len(Split(line)) < 4 THEN None ELSE parse_line_item_from_parts(Split(line))

\* the stripped cells of line.split("|")
PipeCells(line) == [k \in DOMAIN SplitFrom(line, "|", 1, "") |-> Strip(SplitFrom(line, "|", 1, "")[k])]

\* _parse_line_pipe_separated
parse_line_pipe_separated(line) ==
    IF Len(PipeCells(line)) < 3 THEN None ELSE parse_line_item_from_parts(PipeCells(line))

\* skip_keywords
SkipKeywords ==
    {"invoice", "page", "remit", "sold to", "ship to", "sub-total", "subtotal",
     "total", "amount due", "please pay", "thank you", "customer order"}

\* re.search(r"\d+\.\d{2}", s)
HasPrice(s) == \E i \in 1..Len(s) : /\ i + 3 <= Len(s)
                                     /\ IsDigit(Ch(s, i))
                                     /\ Ch(s, i + 1) = "."
                                     /\ IsDigit(Ch(s, i + 2))
                                     /\ IsDigit(Ch(s, i + 3))

\* the lines the loop passes over: short, header-like or column headers
Skipped(line) ==
    \/ Len(line) < 8
    \/ (\E kw \in SkipKeywords : Contains(Lower(line), kw)) /\ ~HasPrice(line)
    \/ Len(Split(line)) <= 3 /\ ~HasPrice(line)

\* line.count("|")
PipeCount(line) == Cardinality({k \in 1..Len(line) : Ch(line, k) = "|"})

\* is_price_per_hundred
is_price_per_hundred(txt) ==
    \E k \in DOMAIN txt : Contains(Lower(txt[k]), "per hundred")
                            \/ Contains(Lower(txt[k]), "price/hundred")
                            \/ Contains(Lower(txt[k]), "price / hundred")

\* the end of the longest run of characters of S that starts at i (i - 1
\* when there is none)
RunEnd(s, i, S) == Max({j \in (i - 1)..Len(s) : AllIn(SubSeq(s, i, j), S)})

\* the end of the match of [\d,]+\.?\d* that starts at i
NumEnd(s, i) ==
    IF /\ RunEnd(s, i, DigitSet \cup {","}) < Len(s)
       /\ Ch(s, RunEnd(s, i, DigitSet \cup {","}) + 1) = "."
    THEN RunEnd(s, RunEnd(s, i, DigitSet \cup {","}) + 2, DigitSet)
    ELSE RunEnd(s, i, DigitSet \cup {","})

RECURSIVE NumsFrom(_, _)
\* re.findall(r"[\d,]+\.?\d*", line), from position i on
NumsFrom(s, i) ==
    IF i > Len(s) THEN <<>>
    ELSE IF Ch(s, i) \notin DigitSet \cup {","}
         THEN NumsFrom(s, i + 1)
         ELSE <<SubSeq(s, i, NumEnd(s, i))>> \o NumsFrom(s, NumEnd(s, i) + 1)

\* _parse_float of a match of that pattern, in cents; None for no digits
parse_float(n) == IF IsFloat(n) THEN Some(Cents(Clean(n))) ELSE None

\* the values of a list of present options
ValsOf(seq) == [k \in DOMAIN seq |-> Val(seq[k])]

\* decimals of the regex pass: the values from 0.01 to 999999, in order
FallbackDecimals(line) ==
    ValsOf(SelectSeq([k \in DOMAIN NumsFrom(line, 1) |-> parse_float(NumsFrom(line, 1)[k])],
                     LAMBDA v : ~IsNone(v) /\ Val(v) >= 1 /\ Val(v) <= 99999900))

\* max(decimals)
MaxOf(seq) == Max({seq[k] : k \in DOMAIN seq})

\* next((d for d in decimals if d != extended and 0.001 <= d <= 99999), extended)
FallbackUnit(decimals, extended) ==
    IF SelectSeq(decimals, LAMBDA v : v # extended /\ v <= 9999900) = <<>>
    THEN extended
    ELSE SelectSeq(decimals, LAMBDA v : v # extended /\ v <= 9999900)[1]

RECURSIVE WholeNumbersFrom(_, _)
\* re.findall(r"\b\d+\b", line) from position i on, as integers
WholeNumbersFrom(s, i) ==
    IF i > Len(s) THEN <<>>
    ELSE IF i \in WordB(s, Positions(s)) /\ WordB(s, DigitsPlus(s, {i})) # {}
         THEN <<ToInt(SubSeq(s, i, Max(WordB(s, DigitsPlus(s, {i}))) - 1))>>
              \o WholeNumbersFrom(s, Max(WordB(s, DigitsPlus(s, {i}))))
         ELSE WholeNumbersFrom(s, i + 1)

\* qty of the regex pass: the first whole number in 1..99999 that is not
\* int(extended), else 1
FallbackQty(line, extended) ==
    IF SelectSeq(WholeNumbersFrom(line, 1),
                 LAMBDA v : v >= 1 /\ v <= 99999 /\ v # extended \div 100) = <<>>
    THEN 1
    ELSE SelectSeq(WholeNumbersFrom(line, 1),
                   LAMBDA v : v >= 1 /\ v <= 99999 /\ v # extended \div 100)[1]

RECURSIVE SplitWide(_, _, _)
\* re.split(r"\s{2,}|\t", line) from position i on, for a line whose white
\* space is blanks: the cut is at runs of two or more
SplitWide(s, i, word) ==
    IF i > Len(s) THEN <<word>>
    ELSE IF RunEnd(s, i, {" "}) > i
         THEN <<word>> \o SplitWide(s, RunEnd(s, i, {" "}) + 1, "")
         ELSE SplitWide(s, i + 1, word \o Ch(s, i))

\* desc of the regex pass: the first four wide columns longer than two
\* characters that are not numbers, else the first 80 characters
FallbackDesc(line) ==
    IF SelectSeq(SplitWide(line, 1, ""),
                 LAMBDA p : p # "" /\ ~IsNumeric(NoCommas(p)) /\ Len(p) > 2) = <<>>
    THEN Take(line, 80)
    ELSE Join(Take(SelectSeq(SplitWide(line, 1, ""),
                 LAMBDA p : p # "" /\ ~IsNumeric(NoCommas(p)) /\ Len(p) > 2), 4))

\* the RawLineItem of lines 210-219
FallbackItem(line, extended, unit_price) ==
    RawLineItem(Take(FallbackDesc(line), 200), None, FallbackQty(line, extended),
                extract_uom(line), Some(<<unit_price, 1>>), Some(extended), 65)

\* lines 189-219 for the standard layout: an item when the line has two
\* amounts
regex_pass(line, decimals) ==
    IF Len(decimals) < 2 THEN None
    ELSE Some(FallbackItem(line, MaxOf(decimals),
                           FallbackUnit(decimals, MaxOf(decimals))))

\* lines 182-185: the column parse of a stripped line
ColumnParse(line) ==
    IF PipeCount(line) >= 2
    THEN parse_line_pipe_separated(line)
    ELSE parse_line_space_separated(line)

\* lines 181-219: the column parse, and the regex pass when it gives nothing
ParsedLine(line) ==
    IF IsNone(ColumnParse(line))
    THEN regex_pass(line, FallbackDecimals(line))
    ELSE ColumnParse(line)
\* one pass of the loop of lines 168-225: the item of the line, if it has one
LineItem(line) == IF Skipped(Strip(line)) THEN None ELSE ParsedLine(Strip(line))

\* lines 221-225: an item with a positive extended price and a new key
Keeps(parsed, seen) ==
    /\ ~IsNone(parsed)
    /\ Val(Val(parsed).extended_price) > 0
    /\ <<Val(parsed).quantity, Val(parsed).extended_price>> \notin seen

\* the loop without the test of line 223
KeptAll(parsed, seen) == ValsOf(SelectSeq(parsed, LAMBDA p : Keeps(p, seen)))

RECURSIVE KeptFrom(_, _)
\* the loop over the parsed lines with the keys seen so far
KeptFrom(parsed, seen) ==
    IF parsed = <<>> THEN <<>>
    ELSE IF Keeps(parsed[1], seen)
         THEN <<Val(parsed[1])>>
              \o KeptFrom(Tail(parsed), seen \cup {<<Val(parsed[1]).quantity, Val(parsed[1]).extended_price>>})
         ELSE KeptFrom(Tail(parsed), seen)

\* the lines a document text is made of
TextLines ==
    {"GLOVES  2  CS  12.00  24.00",
     "GLOVES 25/CS  2  CS  25.00  50.00",
     "GLOVES 0/CS  2  CS  6.00  12.00",
     "WIDGET A  10  EA  2.50  25.00",
     "WIDGET A  2  EA  0.01  0.02"}

\* the texts extract_text_from_pdf can give: lists of lines in the standard
\* layout
Texts == {t \in SeqUpTo(TextLines, MaxItems) : ~is_price_per_hundred(t)}

\* the lines of the texts extract_line_items is called with on its own: the
\* lines of the documents, a second line with the quantity and extended price
\* of the first, a line whose total disagrees with its unit price, a header
\* line, and a line of three words, which only the regex pass parses
ParserLines ==
    TextLines \cup {"GLOVES 25/CS  2  CS  12.00  24.00",
                    "WIDGET A  10  EA  2.50  30.00",
                    "Subtotal goods here",
                    "WIDGET 2.50 25.00"}

\* the texts of those calls, in the standard layout
ParserTexts == {t \in SeqUpTo(ParserLines, MaxItems) : ~is_price_per_hundred(t)}

\* LineItem, tabulated for the lines of the texts
LineTable == [l \in ParserLines |-> LineItem(l)]

\* extract_line_items(text), text being its lines
extract_line_items(txt) == KeptFrom([k \in DOMAIN txt |-> LineTable[txt[k]]], {})

(***************************************************************************)
(* lookup_agent.py: batch auxiliary resolution                             *)
(***************************************************************************)
\* the objects of the auxiliary-resolution capability's JSON array; an
\* element that is no object makes o.get raise
AuxObject(is_dict, pq_kind, pq, confidence, escalation) ==
    [is_dict |-> is_dict, canonical_uom |-> "EA", pq_kind |-> pq_kind, pq |-> pq,
     confidence |-> confidence, escalation |-> escalation]

AuxObjects ==
    { AuxObject(TRUE, "num", 25, 50, FALSE),
      AuxObject(TRUE, "str", 0, 90, FALSE),
      AuxObject(TRUE, "num", 25, -10, FALSE),
      AuxObject(FALSE, "null", 0, 0, FALSE) }

\* what the capability does when called: the call or json.loads raises
\* ("error"), the JSON is no array ("other"), or it is an array
AuxResponse(kind, arr) == [kind |-> kind, arr |-> arr]

AuxResponses ==
    {AuxResponse("error", <<>>), AuxResponse("other", <<>>)}
    \cup {AuxResponse("list", a) : a \in SeqUpTo(AuxObjects, MaxArr)}

\* int(float(pq)) if pq is not None else None; a string that is no number
\* raises ValueError, which gives None
PackVal(o) == IF o.pq_kind = "num" THEN Some(o.pq) ELSE None

\* the default for every requested index
AllDefault(items) == [idx \in Range(items) |-> DefaultLookup]

\* lines 229-240: the LookupResult built from one object of the array
Answer(o) == LookupResult(o.canonical_uom, PackVal(o), o.confidence, o.escalation)

\* the position whose assignment to result[idx] is the last one
PositionOf(items, idx) == Max({k \in DOMAIN items : items[k] = idx})

\* the mapping without the else of line 241 and the loop of lines 243-245:
\* only the answered indices
FromArrayAnswered(items, arr) ==
    IF \E k \in DOMAIN items : k <= Len(arr) /\ ~arr[k].is_dict
    THEN AllDefault(items)
    ELSE [idx \in {items[k] : k \in {j \in DOMAIN items : j <= Len(arr)}} |->
            Answer(arr[PositionOf(items, idx)])]

\* lines 224-246: the mapping built from the array; o.get raises on an
\* element that is no object, and the handler of line 247 answers
FromArray(items, arr) ==
    IF \E k \in DOMAIN items : k <= Len(arr) /\ ~arr[k].is_dict
    THEN AllDefault(items)
    ELSE [idx \in Range(items) |->
            IF PositionOf(items, idx) <= Len(arr)
            THEN Answer(arr[PositionOf(items, idx)])
            ELSE DefaultLookup]

\* the mapping and whether the capability was called
BatchResult(results, called) == [results |-> results, called |-> called]

\* _batch_call_llm_for_uom: items is the sequence of requested indices
batch_call_llm_for_uom(items, has_client, resp) ==
    IF ~has_client \/ items = <<>> THEN BatchResult(AllDefault(items), FALSE)
    ELSE IF resp.kind = "list" THEN BatchResult(FromArray(items, resp.arr), TRUE)
    ELSE IF resp.kind = "other" THEN BatchResult(FromArray(items, <<>>), TRUE)
    ELSE BatchResult(AllDefault(items), TRUE)

\* the policy asked whatever use_lookup_agent is
WantsLookupAlways(raw, use_lookup) ==
    should_trigger_lookup(raw.original_uom, PackOf(raw.description), raw.description)

\* line 270: the policy asks for a lookup of the line
WantsLookup(raw, use_lookup) ==
    /\ use_lookup
    /\ should_trigger_lookup(raw.original_uom, PackOf(raw.description), raw.description)

\* line 277: the indices appended to need_llm, in line order
NeedLlm(items, use_lookup) ==
    SelectSeq([i \in DOMAIN items |-> i],
              LAMBDA i : /\ WantsLookup(items[i], use_lookup)
                         /\ IsNone(parse_pack_from_description(items[i].description)))

\* lines 273-275: the indices resolved from the description, without the capability
LocalIdx(items, use_lookup) ==
    {i \in DOMAIN items : /\ WantsLookup(items[i], use_lookup)
                          /\ ~IsNone(parse_pack_from_description(items[i].description))}

\* lines 279-280: one call for all of need_llm, none when it is empty
BatchFor(need, has_client, resp) ==
    IF need # <<>> THEN batch_call_llm_for_uom(need, has_client, resp)
    ELSE BatchResult(<<>>, FALSE)

\* one call of the capability per line of need_llm
ResolvedEach(items, local, batch, need) ==
    [results |->
        [i \in local \cup DOMAIN batch.results |->
            IF i \in DOMAIN batch.results THEN batch.results[i]
            ELSE LookupResult("EA", PackOf(items[i].description), 85, FALSE)],
     need_llm |-> need,
     calls |-> IF batch.called THEN Len(need) ELSE 0]

\* lines 275 and 281: results, the batch's entries over the local ones
Resolved(items, local, batch, need) ==
    [results |->
        [i \in local \cup DOMAIN batch.results |->
            IF i \in DOMAIN batch.results THEN batch.results[i]
            ELSE LookupResult("EA", parse_pack_from_description(items[i].description),
                              85, FALSE)],
     need_llm |-> need,
     calls |-> IF batch.called THEN 1 ELSE 0]

\* resolve_uom_agent_batch: the mapping line index -> LookupResult, the
\* indices sent to the capability, and the number of calls made to it
resolve_uom_agent_batch(items, use_lookup, has_client, resp) ==
    Resolved(items, LocalIdx(items, use_lookup),
             BatchFor(NeedLlm(items, use_lookup), has_client, resp),
             NeedLlm(items, use_lookup))

(***************************************************************************)
(* pipeline.py: process_invoice_pdf                                        *)
(***************************************************************************)
VARIABLES
    use_lookup_agent,   \* arguments of process_invoice_pdf
    use_llm_fallback,
    use_llm_primary,
    has_client,         \* get_openai_client() returns a client
    hint_supplier,      \* detect_supplier(text)
    pc,                 \* position in process_invoice_pdf
    raw_items,
    supplier_name,
    parser_used,
    lookup_results,
    need_llm,           \* the indices resolve_uom_agent_batch sent to the capability
    line_outputs,
    result,             \* the returned InvoiceResult, None before the return
    stages,             \* history: the stages run, each with the items it gave
    aux_calls,          \* history: calls of the auxiliary-resolution capability
    extract_calls,      \* history: calls of the extraction capability
    extract_log,        \* history: the calls of extract_all_via_llm and what they returned
    text,               \* the lines of the document text, fixed when the generic parser reads them
    call,               \* a call of a pure function: its name and arguments
    ret,                \* the value the call returned, None before it returns
    pdfs,               \* run_on_folder: sorted(input_path.glob("*.pdf"))
    max_workers,
    doc_raises,         \* per document: process_invoice_pdf raises
    unwritable,         \* per document: open(out_file, "w") raises
    fpc,                \* position in run_on_folder
    results,            \* the list being built
    futures,            \* per document: the state of its future
    completed,          \* history: the order in which the futures completed
    processed,          \* history: the documents _process_one was called for
    returned,           \* the list run_on_folder returned, None before the return
    api_key,            \* api_client: an API key is configured in the environment
    global_client,      \* api_client._client: None or the instance it holds
    constructed,        \* history: the number of OpenAI instances constructed
    tpc,                \* per worker thread: its position in get_openai_client
    made,               \* per worker thread: the instance its call constructed, 0 for none
    got,                \* history: the values the calls of get_openai_client returned
    ncalls              \* per worker thread: the calls it has finished

pipeline_vars ==
    <<use_lookup_agent, use_llm_fallback, use_llm_primary, has_client, hint_supplier,
      pc, raw_items, supplier_name, parser_used, lookup_results, need_llm,
      line_outputs, result, stages, aux_calls, extract_calls, extract_log, text>>

config_vars ==
    <<use_lookup_agent, use_llm_fallback, use_llm_primary, has_client, hint_supplier>>

calls_vars == <<call, ret>>

folder_vars ==
    <<pdfs, max_workers, doc_raises, unwritable, fpc, results, futures, completed,
      processed, returned>>

client_vars == <<api_key, global_client, constructed, tpc, made, got, ncalls>>

vars == <<pipeline_vars, calls_vars, folder_vars, client_vars>>

\* no thread is in get_openai_client
ClientIdle ==
    /\ api_key = FALSE
    /\ global_client = None
    /\ constructed = 0
    /\ tpc = <<>>
    /\ made = <<>>
    /\ got = {}
    /\ ncalls = <<>>

\* no call of a pure function is under way
CallsIdle == call = None /\ ret = None

\* run_on_folder is not running
FolderIdle ==
    /\ pdfs = <<>>
    /\ max_workers = 0
    /\ doc_raises = <<>>
    /\ unwritable = <<>>
    /\ fpc = "idle"
    /\ results = <<>>
    /\ futures = <<>>
    /\ completed = <<>>
    /\ processed = {}
    /\ returned = None

\* process_invoice_pdf is not running
PipelineIdle ==
    /\ use_lookup_agent = FALSE
    /\ use_llm_fallback = FALSE
    /\ use_llm_primary = FALSE
    /\ has_client = FALSE
    /\ hint_supplier = ""
    /\ pc = "idle"
    /\ raw_items = <<>>
    /\ supplier_name = ""
    /\ parser_used = ""
    /\ lookup_results = <<>>
    /\ need_llm = <<>>
    /\ line_outputs = <<>>
    /\ result = None
    /\ stages = <<>>
    /\ aux_calls = 0
    /\ extract_calls = 0
    /\ extract_log = <<>>
    /\ text = None

Stage(name, items) == [stage |-> name, items |-> Len(items)]

\* one call of extract_all_via_llm: the stage that made it, the hint it was
\* given, what happened, what it returned, and the number of stages run so far
ExtractCall(stage, hint, outcome, supplier, items, at) ==
    [stage |-> stage, hint |-> hint, outcome |-> outcome, supplier |-> supplier,
     items |-> Len(items), at |-> at]

\* the nearest integers to num / den (den > 0): both neighbours at an exact
\* decimal tie, where the binary value of the float decides
RoundSet(num, den) ==
    IF 2 * (num % den) < den THEN {num \div den}
    ELSE IF 2 * (num % den) > den THEN {(num \div den) + 1}
    ELSE {num \div den, (num \div den) + 1}

\* lines 43-49: the state before the first stage
PipelineInit ==
    /\ use_lookup_agent \in BOOLEAN
    /\ use_llm_fallback \in BOOLEAN
    /\ use_llm_primary \in BOOLEAN
    /\ has_client \in BOOLEAN
    /\ hint_supplier \in HintSuppliers
    /\ pc = "primary"
    /\ raw_items = <<>>
    /\ supplier_name = hint_supplier
    /\ parser_used = "llm_primary"
    /\ lookup_results = <<>>
    /\ need_llm = <<>>
    /\ line_outputs = <<>>
    /\ result = None
    /\ stages = <<>>
    /\ aux_calls = 0
    /\ extract_calls = 0
    /\ extract_log = <<>>
    /\ text = None
    /\ CallsIdle
    /\ FolderIdle
    /\ ClientIdle

\* the generic parser run whatever primary extraction returned
AfterPrimaryAlwaysGeneric(items) == "generic"

\* line 56: the generic parser runs if there are no items yet
AfterPrimary(items) == IF Len(items) = 0 THEN "generic" ELSE "lookup"

\* line 61: the fallback runs if the generic parser gave no items and it is enabled
AfterGeneric(items, fallback) == IF Len(items) = 0 /\ fallback THEN "fallback" ELSE "lookup"

\* the label set whatever the fallback returned
FallbackParserAlways(items, current) == "llm_fallback"

\* lines 63-64
FallbackParser(items, current) == IF items # <<>> THEN "llm_fallback" ELSE current

\* lines 52-53: primary extraction, when enabled
PrimaryStage ==
    /\ pc = "primary"
    /\ use_llm_primary
    /\ \E r \in extract_all_via_llm(has_client, hint_supplier) :
        /\ supplier_name' = r[1]
        /\ raw_items' = r[2]
        /\ stages' = Append(stages, Stage("primary", r[2]))
        /\ pc' = AfterPrimary(r[2])
        /\ extract_log' = Append(extract_log,
                                 ExtractCall("primary", hint_supplier, r[3], r[1], r[2],
                                             Len(stages) + 1))
    /\ extract_calls' = extract_calls + (IF has_client THEN 1 ELSE 0)
    /\ UNCHANGED <<calls_vars, folder_vars, client_vars, config_vars, parser_used, lookup_results, need_llm, line_outputs,
                   result, aux_calls, text>>

\* line 52: primary extraction disabled
PrimarySkipped ==
    /\ pc = "primary"
    /\ ~use_llm_primary
    /\ pc' = AfterPrimary(raw_items)
    /\ UNCHANGED <<calls_vars, folder_vars, client_vars, config_vars, raw_items, supplier_name, parser_used, lookup_results,
                   need_llm, line_outputs, result, stages, aux_calls, extract_calls, extract_log, text>>

\* lines 56-59: the generic table parser
GenericStage ==
    /\ pc = "generic"
    /\ \E t \in Texts :
        /\ text' = Some(t)
        /\ raw_items' = extract_line_items(t)
        /\ stages' = Append(stages, Stage("generic", extract_line_items(t)))
        /\ pc' = AfterGeneric(extract_line_items(t), use_llm_fallback)
    /\ parser_used' = "generic"
    /\ supplier_name' = hint_supplier
    /\ UNCHANGED <<calls_vars, folder_vars, client_vars, config_vars, lookup_results, need_llm, line_outputs, result,
                   aux_calls, extract_calls, extract_log>>

\* lines 61-64: fallback extraction
FallbackStage ==
    /\ pc = "fallback"
    /\ \E r \in extract_line_items_via_llm(has_client, supplier_name) :
        /\ raw_items' = r[1]
        /\ supplier_name' = r[2]
        /\ parser_used' = FallbackParser(r[1], parser_used)
        /\ stages' = Append(stages, Stage("fallback", r[1]))
        /\ extract_log' = Append(extract_log,
                                 ExtractCall("fallback", supplier_name, r[3], r[2], r[1],
                                             Len(stages) + 1))
    /\ extract_calls' = extract_calls + (IF has_client THEN 1 ELSE 0)
    /\ pc' = "lookup"
    /\ UNCHANGED <<calls_vars, folder_vars, client_vars, config_vars, lookup_results, need_llm, line_outputs, result, aux_calls, text>>

\* line 67: lookup_results is bound to the mapping returned
Resolve(r) ==
    /\ lookup_results' = r.results
    /\ need_llm' = r.need_llm
    /\ aux_calls' = aux_calls + r.calls

\* line 67: resolve_uom_agent_batch, the first step of UOM normalization
LookupStage ==
    /\ pc = "lookup"
    /\ \E resp \in IF has_client /\ NeedLlm(raw_items, use_lookup_agent) # <<>>
                   THEN AuxResponses ELSE {AuxResponse("error", <<>>)} :
        Resolve(resolve_uom_agent_batch(raw_items, use_lookup_agent, has_client, resp))
    /\ stages' = Append(stages, Stage("normalize", raw_items))
    /\ pc' = "normalize"
    /\ UNCHANGED <<calls_vars, folder_vars, client_vars, config_vars, raw_items, supplier_name, parser_used, line_outputs,
                   result, extract_calls, extract_log, text>>

LineItemOutput(supplier, description, mpn, original_uom, pack, canonical, price, confidence, escalation) ==
    [supplier_name |-> supplier, item_description |-> description,
     manufacturer_part_number |-> mpn, original_uom |-> original_uom,
     detected_pack_quantity |-> pack, canonical_base_uom |-> canonical,
     price_per_base_unit |-> price, confidence_score |-> confidence,
     escalation_flag |-> escalation]

LineValues(canonical, pack, confidence, escalate, price) ==
    [canonical_uom |-> canonical, pack_qty |-> pack, confidence |-> confidence,
     escalate |-> escalate, price |-> price]

\* lines 82-92: a line with an auxiliary resolution
LookupLineWith(raw, lookup, pp) ==
    LineValues(lookup.canonical_uom, lookup.detected_pack_quantity,
               lookup.confidence * raw.line_confidence,
               lookup.escalation \/ pp.unsafe, pp.price)

LookupLine(raw, lookup) ==
    LookupLineWith(raw, lookup,
                   price_per_base_unit(raw.extended_price, raw.quantity, raw.original_uom,
                                       lookup.detected_pack_quantity, TRUE))

\* lines 95-96: the pack of the description when the classifier found none
DirectPack(n, pack_from_desc) ==
    IF IsNone(n.pack_quantity) /\ ~IsNone(pack_from_desc) THEN pack_from_desc
    ELSE n.pack_quantity

\* lines 97-111
DirectLineWith(raw, n, pack_qty, pp) ==
    LineValues(n.canonical_uom, pack_qty, n.confidence * raw.line_confidence,
               (/\ n.canonical_uom = "EA"
                /\ IsNone(pack_qty)
                /\ Upper(Strip(OrEmpty(raw.original_uom))) \in UOM_PACK_CONTAINER)
               \/ pp.unsafe,
               pp.price)

DirectLinePack(raw, n, pack_qty) ==
    DirectLineWith(raw, n, pack_qty,
                   price_per_base_unit(raw.extended_price, raw.quantity, raw.original_uom,
                                       pack_qty, n.convertible))

\* lines 93-111: a line normalized by the classifier
DirectLine(raw, n, pack_from_desc) ==
    DirectLinePack(raw, n, DirectPack(n, pack_from_desc))

\* lines 71-111: the values of one line before the global confidence rule;
\* the confidence is in ten-thousandths
LineCalc(raw, i, lookups) ==
    IF is_measurable_uom(raw.original_uom) THEN LineValues("EA", None, 3000, TRUE, None)
    ELSE IF i \in DOMAIN lookups THEN LookupLine(raw, lookups[i])
    ELSE DirectLine(raw, normalize_uom(raw.original_uom, Some(raw.description)),
                    OrInt(PackOf(raw.description),
                          parse_pack_from_description(raw.description)))

\* the rule of line 113 with the threshold 0.3
LowConfidenceBelow03(confidence) == confidence < 3000

\* line 113: confidence < 0.6
LowConfidence(confidence) == confidence < 6000

\* line 124: round(price_per_ea, 4), in hundredths of a cent
RoundPrice(price) ==
    IF IsNone(price) THEN {None}
    ELSE {Some(x) : x \in RoundSet(Val(price)[1] * 100, Val(price)[2])}

\* line 125: round(min(1.0, confidence), 2), in hundredths
RoundConfidence(confidence) ==
    RoundSet(IF confidence > 10000 THEN 10000 ELSE confidence, 100)

\* raw.manufacturer_part or raw.item_number
Mpn(raw) ==
    IF ~IsNone(raw.manufacturer_part) /\ Val(raw.manufacturer_part) # ""
    THEN raw.manufacturer_part ELSE raw.item_number

\* lines 113-127: the LineItemOutput values the constructor is given for a
\* line whose values are c
OutputsOf(raw, c, supplier) ==
    {LineItemOutput(supplier, raw.description, Mpn(raw), raw.original_uom, c.pack_qty,
                    c.canonical_uom, p, s, c.escalate \/ LowConfidence(c.confidence)) :
        p \in RoundPrice(c.price), s \in RoundConfidence(c.confidence)}

LineOutputs(raw, i, lookups, supplier) == OutputsOf(raw, LineCalc(raw, i, lookups), supplier)

\* the model's field constraints: confidence_score ge=0.0, le=1.0
Validates(out) == out.confidence_score >= 0 /\ out.confidence_score <= 100

\* the output put in front of the list
Prepended(outputs, out) == <<out>> \o outputs

\* line 116: line_outputs.append
Appended(outputs, out) == Append(outputs, out)

\* lines 70-128: one iteration of the loop; a rejected LineItemOutput raises
NormalizeLine ==
    /\ pc = "normalize"
    /\ Len(line_outputs) < Len(raw_items)
    /\ \E out \in LineOutputs(raw_items[Len(line_outputs) + 1], Len(line_outputs) + 1,
                              lookup_results, supplier_name) :
        IF Validates(out)
        THEN /\ line_outputs' = Appended(line_outputs, out)
             /\ pc' = pc
        ELSE /\ line_outputs' = line_outputs
             /\ pc' = "raised"
    /\ UNCHANGED <<calls_vars, folder_vars, client_vars, config_vars, raw_items, supplier_name, parser_used, lookup_results,
                   need_llm, result, stages, aux_calls, extract_calls, extract_log, text>>

\* lines 130-135
ReturnResult ==
    /\ pc = "normalize"
    /\ Len(line_outputs) = Len(raw_items)
    /\ result' = Some(InvoiceResult("doc.pdf", supplier_name, line_outputs,
                                    [parser |-> parser_used]))
    /\ pc' = "done"
    /\ UNCHANGED <<calls_vars, folder_vars, client_vars, config_vars, raw_items, supplier_name, parser_used, lookup_results,
                   need_llm, line_outputs, stages, aux_calls, extract_calls, extract_log, text>>

PipelineNext ==
    \/ PrimaryStage
    \/ PrimarySkipped
    \/ GenericStage
    \/ FallbackStage
    \/ LookupStage
    \/ NormalizeLine
    \/ ReturnResult

(***************************************************************************)
(* Calls of the pure functions, one call per behaviour                     *)
(***************************************************************************)
PriceCall(extended_price, quantity, original_uom, pack_quantity, convertible) ==
    [fn |-> "price_per_base_unit", extended_price |-> extended_price,
     quantity |-> quantity, original_uom |-> original_uom,
     pack_quantity |-> pack_quantity, convertible |-> convertible]

\* arguments of price_per_base_unit; the default of convertible is TRUE
PriceCalls ==
    {PriceCall(e, q, u, p, c) :
        e \in {None, Some(-500), Some(0), Some(1000), Some(2400)},
        q \in {-1, 0, 2},
        u \in {None, Some("LB"), Some(" lb"), Some("CS"), Some("DZ"), Some("EA"),
               Some("PR"), Some("GR"), Some("CNT"), Some("XY")},
        p \in {None, Some(0), Some(25)},
        c \in BOOLEAN}

BatchCallOf(items, client, resp) ==
    [fn |-> "_batch_call_llm_for_uom", items |-> items, has_client |-> client,
     resp |-> resp]

\* the index lists resolve_uom_agent_batch can build: increasing line indices
IndexLists ==
    {l \in SeqUpTo(1..MaxItems, MaxItems) :
        \A a, b \in DOMAIN l : a < b => l[a] < l[b]}

\* arguments of _batch_call_llm_for_uom, with what the client and the
\* capability do during the call
BatchCalls ==
    {BatchCallOf(l, c, r) : l \in IndexLists, c \in BOOLEAN, r \in AuxResponses}

TriggerCall(original_uom, pack_from_parsing, description) ==
    [fn |-> "should_trigger_lookup", original_uom |-> original_uom,
     pack_from_parsing |-> pack_from_parsing, description |-> description]

\* arguments of should_trigger_lookup: units of every class, aliases of one
\* canonical unit, a missing and an empty unit; no pack, the pack 0 and a positive pack; descriptions without
\* and with "/", "PK", "PER", a slash pattern, "PK<n>" and "<n> PR"
TriggerUnits ==
    {None, Some(""), Some("LB"), Some("EA"), Some("EACH"), Some("PCS"), Some("PR"),
     Some("PAIR"), Some("DZ"), Some("DOZ"), Some("DOZEN"), Some("CS"), Some("CNT"),
     Some("XY")}

TriggerCalls ==
    {TriggerCall(u, p, d) :
        u \in TriggerUnits,
        p \in {None, Some(0), Some(25)},
        d \in {"GLOVES", "GLOVES 0/CS", "pk5 GLOVES", "GLOVES PER BOX", "10 PR SOCKS"}}

NormCall(original_uom, description) ==
    [fn |-> "normalize_uom", original_uom |-> original_uom, description |-> description]

\* arguments of normalize_uom: a missing and an empty unit, units of every
\* class as canonical tokens, aliases and tokens without an alias, with
\* blanks and lower case, unrecognized tokens without and with a pack
\* pattern; descriptions without a pack pattern, with one and with "0/CS"
NormCalls ==
    {NormCall(u, d) :
        u \in {None, Some(""), Some(" ea "), Some("EA"), Some("PCS"), Some("PR"),
               Some("DOZEN"), Some("GR"), Some("CS"), Some("CARTON"), Some("KIT"),
               Some("CNT"), Some("LB"), Some("XY"), Some("25/CS")},
        d \in {None, Some("GLOVES"), Some("GLOVES 25/CS"), Some("GLOVES 0/CS")}}

PackCall(txt) == [fn |-> "parse_pack_from_text", txt |-> txt]

\* arguments of parse_pack_from_text: one text per pattern, texts that two
\* patterns match, texts "<n>/PR", and texts that no pattern matches
PackCallTexts ==
    {"", "no numbers here", "25/CS", "100/DISP", "PK10", "12 PR/DP", "6 PR/BG",
     "CS/24", "500EA", "50 PR", "BX50", "100/BG.",
     "12 PR/DP 1/PR", "1/PR 25/CS", "PK10 25/CS", "CS/24 PK10", "500EA CS/24",
     "50 PR 500EA", "BX50 50 PR",
     "1/PR", "2/PR", "3/PR", "10/PR", "11/PR", "21/PR", "101/PR"}

PackCalls == {PackCall(t) : t \in PackCallTexts}

ParseCall(lines) == [fn |-> "extract_line_items", lines |-> lines]

\* arguments of extract_line_items
ParseCalls == {ParseCall(t) : t \in ParserTexts}

CallsInit ==
    /\ call \in {Some(c) : c \in PriceCalls \cup BatchCalls \cup TriggerCalls \cup ParseCalls
                                  \cup NormCalls \cup PackCalls}
    /\ ret = None
    /\ PipelineIdle
    /\ FolderIdle
    /\ ClientIdle

CallPrice ==
    /\ ret = None
    /\ Val(call).fn = "price_per_base_unit"
    /\ ret' = Some(price_per_base_unit(Val(call).extended_price, Val(call).quantity,
                                       Val(call).original_uom, Val(call).pack_quantity,
                                       Val(call).convertible))
    /\ UNCHANGED <<call, pipeline_vars, folder_vars, client_vars>>

CallBatch ==
    /\ ret = None
    /\ Val(call).fn = "_batch_call_llm_for_uom"
    /\ ret' = Some(batch_call_llm_for_uom(Val(call).items, Val(call).has_client,
                                          Val(call).resp))
    /\ UNCHANGED <<call, pipeline_vars, folder_vars, client_vars>>

CallTrigger ==
    /\ ret = None
    /\ Val(call).fn = "should_trigger_lookup"
    /\ ret' = Some(should_trigger_lookup(Val(call).original_uom,
                                         Val(call).pack_from_parsing,
                                         Val(call).description))
    /\ UNCHANGED <<call, pipeline_vars, folder_vars, client_vars>>

CallParse ==
    /\ ret = None
    /\ Val(call).fn = "extract_line_items"
    /\ ret' = Some(extract_line_items(Val(call).lines))
    /\ UNCHANGED <<call, pipeline_vars, folder_vars, client_vars>>

CallNorm ==
    /\ ret = None
    /\ Val(call).fn = "normalize_uom"
    /\ ret' = Some(normalize_uom(Val(call).original_uom, Val(call).description))
    /\ UNCHANGED <<call, pipeline_vars, folder_vars, client_vars>>

CallPack ==
    /\ ret = None
    /\ Val(call).fn = "parse_pack_from_text"
    /\ ret' = Some(parse_pack_from_text(Val(call).txt))
    /\ UNCHANGED <<call, pipeline_vars, folder_vars, client_vars>>

CallsNext ==
    \/ CallPrice
    \/ CallBatch
    \/ CallTrigger
    \/ CallParse
    \/ CallNorm
    \/ CallPack

SpecCalls == CallsInit /\ [][CallsNext]_vars

(***************************************************************************)
(* pipeline.py: _process_one and run_on_folder                             *)
(***************************************************************************)
\* the most documents in the input folder
MaxDocs == 2

\* the largest max_workers argument
MaxWorkers == 2

\* the file names the folder can hold, in sorted order
PdfNames == <<"a.pdf", "b.pdf", "c.pdf">>

\* sorted(input_path.glob("*.pdf")) of a folder holding the names S
Sorted(S) == SelectSeq(PdfNames, LAMBDA n : n \in S)

\* a result process_invoice_pdf returns for the document
OkResult(name) == InvoiceResult(name, "Unknown Supplier", <<>>, [parser |-> "generic"])

\* lines 158-163 and 220-225
ErrorResult(name) == InvoiceResult(name, "Error", <<>>, [error |-> "str(e)"])

\* how a call ends: it returns a value or raises
Returned(value) == [raised |-> FALSE, value |-> Some(value)]

Raised == [raised |-> TRUE, value |-> None]

\* _process_one: the handler of line 157 writes the error file itself, so a
\* failing open() of line 165 leaves the function as an exception
process_one(name, raises, write_fails) ==
    IF ~raises /\ ~write_fails THEN Returned(OkResult(name))
    ELSE IF ~write_fails THEN Returned(ErrorResult(name))
    ELSE Raised

\* lines 217-225: future.result(), or the error result if it raises
FutureResult(name, outcome) ==
    IF outcome.raised THEN ErrorResult(name) ELSE Val(outcome.value)

\* the result stored in completion order, at the first unfilled position
StoreFirstFree(list, idx, value) ==
    [list EXCEPT ![Min({k \in DOMAIN list : list[k] = None})] = Some(value)]

\* line 218: results[idx] = ...
StoreAt(list, idx, value) == [list EXCEPT ![idx] = Some(value)]

Running == {i \in DOMAIN futures : futures[i] = "running"}

Queued == {i \in DOMAIN futures : futures[i] = "queued"}

FolderInit ==
    /\ pdfs \in {Sorted(S) : S \in {T \in SUBSET Range(PdfNames) : Cardinality(T) <= MaxDocs}}
    /\ max_workers \in 0..MaxWorkers
    /\ doc_raises \in [1..Len(pdfs) -> BOOLEAN]
    /\ unwritable \in [1..Len(pdfs) -> BOOLEAN]
    /\ fpc = "start"
    /\ results = <<>>
    /\ futures = <<>>
    /\ completed = <<>>
    /\ processed = {}
    /\ returned = None
    /\ PipelineIdle
    /\ CallsIdle
    /\ ClientIdle

\* lines 193-199: nothing to process
ReturnEmpty ==
    /\ fpc = "start"
    /\ pdfs = <<>>
    /\ returned' = Some(<<>>)
    /\ fpc' = "returned"
    /\ UNCHANGED <<pdfs, max_workers, doc_raises, unwritable, results, futures,
                   completed, processed, pipeline_vars, calls_vars, client_vars>>

\* line 201: the sequential list comprehension starts
SeqStart ==
    /\ fpc = "start"
    /\ pdfs # <<>>
    /\ max_workers <= 1
    /\ fpc' = "seq"
    /\ UNCHANGED <<pdfs, max_workers, doc_raises, unwritable, results, futures,
                   completed, processed, returned, pipeline_vars, calls_vars, client_vars>>

\* the comprehension takes what _process_one returned, or is left by its exception
SeqTake(outcome) ==
    IF outcome.raised
    THEN fpc' = "raised" /\ results' = results
    ELSE fpc' = fpc /\ results' = Append(results, outcome.value)

\* lines 202-205: _process_one for the next document
SeqProcess ==
    /\ fpc = "seq"
    /\ Len(results) < Len(pdfs)
    /\ processed' = processed \cup {Len(results) + 1}
    /\ SeqTake(process_one(pdfs[Len(results) + 1], doc_raises[Len(results) + 1],
                           unwritable[Len(results) + 1]))
    /\ UNCHANGED <<pdfs, max_workers, doc_raises, unwritable, futures, completed,
                   returned, pipeline_vars, calls_vars, client_vars>>

\* lines 202-205: the list is returned
SeqReturn ==
    /\ fpc = "seq"
    /\ Len(results) = Len(pdfs)
    /\ returned' = Some(results)
    /\ fpc' = "returned"
    /\ UNCHANGED <<pdfs, max_workers, doc_raises, unwritable, results, futures,
                   completed, processed, pipeline_vars, calls_vars, client_vars>>

\* lines 207-214: the list of None and one future per document
Submit ==
    /\ fpc = "start"
    /\ pdfs # <<>>
    /\ max_workers > 1
    /\ results' = [i \in DOMAIN pdfs |-> None]
    /\ futures' = [i \in DOMAIN pdfs |-> "queued"]
    /\ fpc' = "par"
    /\ UNCHANGED <<pdfs, max_workers, doc_raises, unwritable, completed, processed,
                   returned, pipeline_vars, calls_vars, client_vars>>

\* a free worker thread takes the oldest queued call
WorkerStart ==
    /\ fpc = "par"
    /\ Queued # {}
    /\ Cardinality(Running) < max_workers
    /\ futures' = [futures EXCEPT ![Min(Queued)] = "running"]
    /\ processed' = processed \cup {Min(Queued)}
    /\ UNCHANGED <<pdfs, max_workers, doc_raises, unwritable, fpc, results, completed,
                   returned, pipeline_vars, calls_vars, client_vars>>

\* a worker thread ends its call of _process_one: the future completes
WorkerFinish ==
    /\ fpc = "par"
    /\ \E i \in Running :
        /\ futures' = [futures EXCEPT ![i] = "done"]
        /\ completed' = Append(completed, i)
    /\ UNCHANGED <<pdfs, max_workers, doc_raises, unwritable, fpc, results, processed,
                   returned, pipeline_vars, calls_vars, client_vars>>

\* lines 215-225: as_completed yields a completed future; its slot is filled
Collect ==
    /\ fpc = "par"
    /\ \E i \in {j \in DOMAIN futures : futures[j] = "done"} :
        /\ results' = StoreAt(results, i,
                              FutureResult(pdfs[i],
                                           process_one(pdfs[i], doc_raises[i],
                                                       unwritable[i])))
        /\ futures' = [futures EXCEPT ![i] = "collected"]
    /\ UNCHANGED <<pdfs, max_workers, doc_raises, unwritable, fpc, completed, processed,
                   returned, pipeline_vars, calls_vars, client_vars>>

\* line 226: every future was yielded
ParReturn ==
    /\ fpc = "par"
    /\ \A i \in DOMAIN futures : futures[i] = "collected"
    /\ returned' = Some(results)
    /\ fpc' = "returned"
    /\ UNCHANGED <<pdfs, max_workers, doc_raises, unwritable, results, futures,
                   completed, processed, pipeline_vars, calls_vars, client_vars>>

FolderNext ==
    \/ ReturnEmpty
    \/ SeqStart
    \/ SeqProcess
    \/ SeqReturn
    \/ Submit
    \/ WorkerStart
    \/ WorkerFinish
    \/ Collect
    \/ ParReturn

SpecFolder == FolderInit /\ [][FolderNext]_vars

(***************************************************************************)
(* api_client.py: get_openai_client called by the worker threads of        *)
(* run_on_folder.  Each thread runs the statements of the function in      *)
(* order; the interpreter may switch threads between any two of them.      *)
(***************************************************************************)
\* the most calls of get_openai_client one worker thread makes
MaxClientCalls == 2

\* the worker threads of the pool of pipeline.py line 208
Threads == 1..MaxWorkers

ClientInit ==
    /\ api_key \in BOOLEAN
    /\ global_client = None
    /\ constructed = 0
    /\ tpc = [t \in Threads |-> "idle"]
    /\ made = [t \in Threads |-> 0]
    /\ got = {}
    /\ ncalls = [t \in Threads |-> 0]
    /\ PipelineIdle
    /\ CallsIdle
    /\ FolderIdle

\* line 16: a worker thread calls get_openai_client
ClientCall(t) ==
    /\ tpc[t] = "idle"
    /\ ncalls[t] < MaxClientCalls
    /\ tpc' = [tpc EXCEPT ![t] = "check"]
    /\ UNCHANGED <<api_key, global_client, constructed, made, got, ncalls,
                   pipeline_vars, calls_vars, folder_vars>>

\* line 19: if _client is not None
ClientCheck(t) ==
    /\ tpc[t] = "check"
    /\ tpc' = [tpc EXCEPT ![t] = IF global_client # None THEN "return" ELSE "key"]
    /\ UNCHANGED <<api_key, global_client, constructed, made, got, ncalls,
                   pipeline_vars, calls_vars, folder_vars>>

\* lines 21-23: without an API key the call returns None
ClientKey(t) ==
    /\ tpc[t] = "key"
    /\ IF api_key
       THEN /\ tpc' = [tpc EXCEPT ![t] = "construct"]
            /\ UNCHANGED <<got, ncalls>>
       ELSE /\ tpc' = [tpc EXCEPT ![t] = "idle"]
            /\ got' = got \cup {None}
            /\ ncalls' = [ncalls EXCEPT ![t] = @ + 1]
    /\ UNCHANGED <<api_key, global_client, constructed, made,
                   pipeline_vars, calls_vars, folder_vars>>

\* line 26, right-hand side: OpenAI(...) constructs a new instance
ClientConstruct(t) ==
    /\ tpc[t] = "construct"
    /\ constructed' = constructed + 1
    /\ made' = [made EXCEPT ![t] = constructed + 1]
    /\ tpc' = [tpc EXCEPT ![t] = "assign"]
    /\ UNCHANGED <<api_key, global_client, got, ncalls, pipeline_vars, calls_vars, folder_vars>>

\* line 26, the assignment: _client = the instance the thread constructed
ClientAssign(t) ==
    /\ tpc[t] = "assign"
    /\ global_client' = Some(made[t])
    /\ made' = [made EXCEPT ![t] = 0]
    /\ tpc' = [tpc EXCEPT ![t] = "return"]
    /\ UNCHANGED <<api_key, constructed, got, ncalls,
                   pipeline_vars, calls_vars, folder_vars>>

\* lines 20 and 27: return _client, the global as it is now
ClientReturn(t) ==
    /\ tpc[t] = "return"
    /\ got' = got \cup {global_client}
    /\ ncalls' = [ncalls EXCEPT ![t] = @ + 1]
    /\ tpc' = [tpc EXCEPT ![t] = "idle"]
    /\ UNCHANGED <<api_key, global_client, constructed, made,
                   pipeline_vars, calls_vars, folder_vars>>

ClientNext ==
    \/ \E t \in Threads : ClientCall(t)
    \/ \E t \in Threads : ClientCheck(t)
    \/ \E t \in Threads : ClientKey(t)
    \/ \E t \in Threads : ClientConstruct(t)
    \/ \E t \in Threads : ClientAssign(t)
    \/ \E t \in Threads : ClientReturn(t)

SpecClient == ClientInit /\ [][ClientNext]_vars

(***************************************************************************)
(* Properties of process_invoice_pdf, checked under Spec                   *)
(***************************************************************************)
\* C1: every LineItemOutput produced, on the measurable, the lookup and the
\* direct path and for every extraction strategy, whose stored confidence_score
\* is below 0.6 has escalation_flag true.
C1_LowConfidenceEscalates ==
    \A k \in DOMAIN line_outputs :
        line_outputs[k].confidence_score < 60 => line_outputs[k].escalation_flag

\* C1 witness: a line on the lookup path whose resolution asked for no
\* escalation and whose conversion is safe is produced with confidence 0.43
\* and escalated.
C1_Witness ==
    \E k \in DOMAIN line_outputs :
        /\ k \in DOMAIN lookup_results
        /\ ~lookup_results[k].escalation
        /\ ~is_measurable_uom(raw_items[k].original_uom)
        /\ ~price_per_base_unit(raw_items[k].extended_price, raw_items[k].quantity,
                                raw_items[k].original_uom,
                                lookup_results[k].detected_pack_quantity, TRUE).unsafe
        /\ line_outputs[k].confidence_score < 60
        /\ line_outputs[k].escalation_flag

\* C3 as the spec states it: a line with a pack/container unit such as "CS",
\* positive quantity and extended price and no pack pattern in its text,
\* processed with no auxiliary resolution capability available, has
\* escalation_flag true and price_per_base_unit null.
C3_ContainerWithoutPackUnpriced ==
    \A k \in DOMAIN line_outputs :
        ( /\ ~use_lookup_agent \/ ~has_client
          /\ raw_items[k].original_uom = Some("CS")
          /\ IsNone(PackOf(raw_items[k].description))
          /\ raw_items[k].quantity > 0
          /\ ~IsNone(raw_items[k].extended_price)
          /\ Val(raw_items[k].extended_price) > 0 )
        => /\ line_outputs[k].escalation_flag
           /\ IsNone(line_outputs[k].price_per_base_unit)

\* C3 failing state: such a line is produced escalated, with the price of a
\* case as its price per each.
C3_ContainerPriced ==
    \E k \in DOMAIN line_outputs :
        /\ ~use_lookup_agent \/ ~has_client
        /\ raw_items[k].original_uom = Some("CS")
        /\ IsNone(PackOf(raw_items[k].description))
        /\ line_outputs[k].escalation_flag
        /\ line_outputs[k].price_per_base_unit
             = Some((Val(raw_items[k].extended_price) * 100) \div raw_items[k].quantity)

\* C4: the stages run in the order primary, generic, fallback; the generic
\* parser and the fallback run only if every earlier stage that ran gave zero
\* items; the fallback runs only after the generic parser and only if it is
\* enabled; UOM normalization runs in every case.
C4_StageOrder ==
    LET Rank(name) == CASE name = "primary" -> 1 [] name = "generic" -> 2
                        [] name = "fallback" -> 3 [] name = "normalize" -> 4
    IN  /\ \A a, b \in DOMAIN stages :
            a < b => Rank(stages[a].stage) < Rank(stages[b].stage)
        /\ \A b \in DOMAIN stages :
            stages[b].stage \in {"generic", "fallback"}
            => \A a \in 1..(b - 1) : stages[a].items = 0
        /\ \A b \in DOMAIN stages :
            stages[b].stage = "primary" => use_llm_primary
        /\ \A b \in DOMAIN stages :
            stages[b].stage = "fallback"
            => use_llm_fallback /\ b > 1 /\ stages[b - 1] = [stage |-> "generic", items |-> 0]
        /\ extract_calls > 0
            => \E b \in DOMAIN stages : stages[b].stage \in {"primary", "fallback"}
        /\ pc \in {"normalize", "done", "raised"}
            => stages[Len(stages)].stage = "normalize"

\* C4 witness: a finished run in which all four stages ran, in order.
C4_Witness ==
    /\ pc = "done"
    /\ Len(stages) = 4
    /\ stages[1] = [stage |-> "primary", items |-> 0]
    /\ stages[2] = [stage |-> "generic", items |-> 0]
    /\ stages[3].stage = "fallback"
    /\ stages[3].items > 0
    /\ stages[4].stage = "normalize"

\* C5: the strategy of the result metadata is "llm_primary" exactly when
\* primary extraction was enabled and returned an item, "llm_fallback" exactly
\* when the generic parser returned no item and the enabled fallback returned
\* one, and "generic" in every other case.
C5_StrategyLabel ==
    pc = "done" =>
        LET label == Val(result).raw_metadata.parser
            Gave(name) == \E k \in DOMAIN stages :
                              stages[k].stage = name /\ stages[k].items > 0
            Empty(name) == \E k \in DOMAIN stages :
                              stages[k].stage = name /\ stages[k].items = 0
        IN  /\ label = "llm_primary" <=> (use_llm_primary /\ Gave("primary"))
            /\ label = "llm_fallback"
                 <=> (Empty("generic") /\ use_llm_fallback /\ Gave("fallback"))
            /\ label \in {"llm_primary", "llm_fallback", "generic"}

\* C5 witness: a result labelled "generic" with no items after the enabled
\* fallback was consulted and returned nothing.
C5_Witness ==
    /\ pc = "done"
    /\ Val(result).raw_metadata.parser = "generic"
    /\ Val(result).line_items = <<>>
    /\ \E k \in DOMAIN stages : stages[k] = [stage |-> "fallback", items |-> 0]
    /\ extract_calls > 0

\* C6 as the spec states it: whenever the recorded strategy is "generic", the
\* result's supplier_name and every line's supplier_name equal the hint of
\* supplier detection.
C6_GenericKeepsHint ==
    (pc = "done" /\ Val(result).raw_metadata.parser = "generic")
    => /\ Val(result).supplier_name = hint_supplier
       /\ \A k \in DOMAIN Val(result).line_items :
            Val(result).line_items[k].supplier_name = hint_supplier

\* C6 failing state: the fallback returned a supplier and no item, and the
\* result labelled "generic" carries that supplier.
C6_FallbackSupplierKept ==
    /\ pc = "done"
    /\ Val(result).raw_metadata.parser = "generic"
    /\ Val(result).line_items = <<>>
    /\ Val(result).supplier_name = "Acme Corp"
    /\ hint_supplier = "Unknown Supplier"

\* C7: for one document the auxiliary-resolution capability is called at most
\* once, however many lines need a lookup, and not at all when no line needs
\* an external lookup.
C7_OneAuxCall ==
    /\ aux_calls <= 1
    /\ need_llm = <<>> => aux_calls = 0

\* C7 witness: two lines needed an external lookup and one call was made.
C7_Witness ==
    /\ pc = "done"
    /\ Len(need_llm) = 2
    /\ aux_calls = 1

(***************************************************************************)
(* Properties of the pure functions, checked under SpecCalls               *)
(***************************************************************************)
\* C2 as the spec states it: price_per_base_unit called with the measurable
\* unit "LB" returns (None, True) for every extended price, quantity, pack
\* quantity and convertible argument.
C2_MeasurableNeverPriced ==
    ( /\ ret # None
      /\ Val(call).fn = "price_per_base_unit"
      /\ Val(call).original_uom = Some("LB") )
    => Val(ret) = PriceResult(None, TRUE)

\* C2 failing state: the call for "LB" with convertible left TRUE returned a
\* price and reported the conversion safe.
C2_MeasurablePriced ==
    /\ ret # None
    /\ Val(call).fn = "price_per_base_unit"
    /\ Val(call).original_uom = Some("LB")
    /\ Val(call).convertible
    /\ Val(ret) = PriceResult(Some(<<1000, 2>>), FALSE)

\* C8: the mapping the batch call returns has exactly the requested indices
\* as its keys, and every index the capability gave no answer for (shorter
\* array, no array, failure, no client) has the default result.
C8_BatchKeySet ==
    (ret # None /\ Val(call).fn = "_batch_call_llm_for_uom")
    => /\ DOMAIN Val(ret).results = Range(Val(call).items)
       /\ \A k \in DOMAIN Val(call).items :
            ( \/ ~Val(call).has_client
              \/ Val(call).resp.kind # "list"
              \/ k > Len(Val(call).resp.arr) )
            => Val(ret).results[Val(call).items[k]]
                 = LookupResult("EA", None, 30, TRUE)

\* C8 witness: two indices were requested, the array answered one, and the
\* mapping holds the answer and the default.
C8_Witness ==
    /\ ret # None
    /\ Val(call).fn = "_batch_call_llm_for_uom"
    /\ Val(call).has_client
    /\ Val(call).items = <<1, 2>>
    /\ Val(call).resp.kind = "list"
    /\ Len(Val(call).resp.arr) = 1
    /\ Val(ret).results[1] = LookupResult("EA", Some(25), 50, FALSE)
    /\ Val(ret).results[2] = LookupResult("EA", None, 30, TRUE)

(***************************************************************************)
(* Properties of run_on_folder, checked under SpecFolder                   *)
(***************************************************************************)
\* C9: with max_workers > 1 the returned list has one result per discovered
\* PDF, the result at position i being that of the i-th PDF in sorted order,
\* whatever the order of completion; no position is left unfilled.
C9_ParallelOrder ==
    (fpc = "returned" /\ max_workers > 1)
    => /\ Len(Val(returned)) = Len(pdfs)
       /\ \A i \in DOMAIN pdfs :
            /\ Val(returned)[i] # None
            /\ Val(Val(returned)[i]).source_file = pdfs[i]
            /\ Val(Val(returned)[i]).supplier_name = "Error"
                 <=> (doc_raises[i] \/ unwritable[i])

\* C9 witness: the second document completed before the first and the list
\* was returned.
C9_Witness ==
    /\ fpc = "returned"
    /\ max_workers > 1
    /\ completed = <<2, 1>>
    /\ Val(Val(returned)[1]).source_file = "a.pdf"
    /\ Val(Val(returned)[2]).source_file = "b.pdf"

\* C10 as the spec states it: when processing a document fails, run_on_folder
\* still returns, with an "Error" result without line items for that document
\* and its own result for every other document, in sequential and in
\* parallel mode.
C10_FailureIsolated ==
    fpc \in {"returned", "raised"}
    => /\ fpc = "returned"
       /\ processed = DOMAIN pdfs
       /\ \A i \in DOMAIN pdfs :
            Val(returned)[i] =
                Some(IF doc_raises[i] \/ unwritable[i] THEN ErrorResult(pdfs[i])
                     ELSE OkResult(pdfs[i]))

\* C10 failing state: in sequential mode the first document's output file
\* cannot be written, run_on_folder is left by the exception and the second
\* document is never processed.
C10_SequentialAbort ==
    /\ fpc = "raised"
    /\ max_workers <= 1
    /\ Len(pdfs) = 2
    /\ unwritable[1]
    /\ processed = {1}
    /\ returned = None

\* the list parallel mode returns for the documents of the folder: per
\* document what _process_one returns, or the error result of lines 220-225
ParallelList ==
    [i \in DOMAIN pdfs |->
        Some(FutureResult(pdfs[i], process_one(pdfs[i], doc_raises[i], unwritable[i])))]

\* C29: run_on_folder returns the same list in sequential mode
\* (max_workers <= 1) as in parallel mode for the same documents, also when
\* processing a document or writing its output raises: every call ends by
\* returning the list that parallel mode returns
C29_SameListInBothModes ==
    fpc \in {"returned", "raised"}
    => /\ fpc = "returned"
       /\ Val(returned) = ParallelList

\* sequential mode has ended without a list, the output of the second of two
\* documents being unwritable, where parallel mode returns two results
C29_SequentialReturnsNothing ==
    /\ fpc = "raised"
    /\ max_workers <= 1
    /\ returned = None
    /\ Len(pdfs) = 2
    /\ ~unwritable[1] /\ unwritable[2]
    /\ results = <<Some(IF doc_raises[1] THEN ErrorResult(pdfs[1]) ELSE OkResult(pdfs[1]))>>
    /\ ParallelList = <<results[1], Some(ErrorResult(pdfs[2]))>>

\* what does hold: parallel mode always returns its list, and sequential mode
\* returns the same list when every output file can be written
C29_SameListWhenWritable ==
    (fpc \in {"returned", "raised"}
        /\ (max_workers > 1 \/ \A i \in DOMAIN pdfs : ~unwritable[i]))
    => /\ fpc = "returned"
       /\ Val(returned) = ParallelList

(***************************************************************************)
(* Properties of get_openai_client, checked under SpecClient               *)
(***************************************************************************)
\* C30: the shared client is created at most once: when worker threads call
\* get_openai_client concurrently with an API key configured, exactly one
\* instance is constructed and every call returns that same instance
C30_OneClient ==
    api_key =>
        /\ constructed <= 1
        /\ got # {} => constructed = 1 /\ got = {Some(1)}

\* two worker threads have both found _client empty, each has constructed an
\* instance, and their calls have returned two different instances
C30_TwoClients ==
    /\ api_key
    /\ constructed = 2
    /\ got = {Some(1), Some(2)}
    /\ \A t \in Threads : tpc[t] = "idle"

\* what does hold: a call returns None only without an API key and an
\* instance that was constructed otherwise, and once every thread is back
\* the global holds the instance assigned last
C30_ReturnsConstructed ==
    /\ \A c \in got : IF api_key THEN c # None /\ Val(c) \in 1..constructed ELSE c = None
    /\ constructed <= Cardinality(Threads)
    /\ ~api_key => global_client = None /\ constructed = 0

(***************************************************************************)
(* Properties of the external calls of process_invoice_pdf, under Spec     *)
(***************************************************************************)
\* C11: when the extraction capability has no client, or its call fails or
\* its answer cannot be parsed, the extraction call returns no items and the
\* supplier hint and does not raise, and the pipeline goes on with the next
\* stage: the generic parser after primary extraction, normalization after
\* the fallback.
C11_DegradesToNextStage ==
    \A k \in DOMAIN extract_log :
        extract_log[k].outcome \in {"no_client", "failed"}
        => /\ extract_log[k].items = 0
           /\ extract_log[k].supplier = HintOrUnknown(extract_log[k].hint)
           /\ pc # "raised" \/ Len(stages) > extract_log[k].at
           /\ IF Len(stages) > extract_log[k].at
              THEN stages[extract_log[k].at + 1].stage
                     = (IF extract_log[k].stage = "primary" THEN "generic" ELSE "normalize")
              ELSE pc = (IF extract_log[k].stage = "primary" THEN "generic" ELSE "lookup")

\* C11 witness: primary extraction failed, the generic parser ran and found
\* nothing, the fallback failed too, and the document was returned with no
\* lines and the hint as its supplier.
C11_Witness ==
    /\ Len(extract_log) = 2
    /\ extract_log[1].stage = "primary" /\ extract_log[1].outcome = "failed"
    /\ extract_log[2].stage = "fallback" /\ extract_log[2].outcome = "failed"
    /\ [k \in DOMAIN stages |-> stages[k].stage]
         = <<"primary", "generic", "fallback", "normalize">>
    /\ result # None
    /\ Val(result).line_items = <<>>
    /\ Val(result).supplier_name = hint_supplier

\* C12 as the spec states it: within one document no external extraction
\* request is issued again: after a request returned no items or failed,
\* the same request (same text, same supplier hint) is not made a second time.
C12_NoRepeatedRequest ==
    \A a, b \in DOMAIN extract_log :
        ( /\ a < b
          /\ extract_log[a].outcome # "no_client"
          /\ extract_log[b].outcome # "no_client"
          /\ extract_log[a].items = 0 )
        => extract_log[a].hint # extract_log[b].hint

\* C12 failing state: primary extraction asked the capability and got no
\* items, the generic parser found none, and the fallback asked the
\* capability again with the same hint.
C12_RequestRepeated ==
    /\ Len(extract_log) = 2
    /\ extract_log[1].stage = "primary" /\ extract_log[1].outcome # "no_client"
    /\ extract_log[1].items = 0
    /\ extract_log[2].stage = "fallback" /\ extract_log[2].outcome # "no_client"
    /\ extract_log[2].hint = extract_log[1].hint
    /\ extract_calls = 2

(***************************************************************************)
(* Properties of UOM normalization in process_invoice_pdf, under Spec      *)
(***************************************************************************)
\* C13: every candidate line whose unit is measurable is finalized with
\* canonical unit "EA", no pack quantity, no price, confidence 0.3 and
\* escalation, whatever its description, prices and the lookup setting, and
\* the policy never asks an auxiliary lookup for it.
C13_MeasurableFinalized ==
    /\ \A k \in DOMAIN line_outputs :
        is_measurable_uom(raw_items[k].original_uom)
        => /\ line_outputs[k].canonical_base_uom = "EA"
           /\ line_outputs[k].detected_pack_quantity = None
           /\ line_outputs[k].price_per_base_unit = None
           /\ line_outputs[k].confidence_score = 30
           /\ line_outputs[k].escalation_flag
    /\ \A k \in DOMAIN raw_items :
        is_measurable_uom(raw_items[k].original_uom)
        => /\ k \notin DOMAIN lookup_results
           /\ k \notin Range(need_llm)

\* C13 witness: with the lookup agent on and a client, a line sold by the
\* pound whose description holds "1/" and whose extended price is positive
\* was finalized and returned, while the other line of the document was sent
\* to the auxiliary capability.
C13_Witness ==
    /\ use_lookup_agent /\ has_client
    /\ result # None
    /\ Len(raw_items) = 2
    /\ raw_items[1].original_uom = Some("LB")
    /\ raw_items[1].description = "PIPE 1/2"
    /\ Val(raw_items[1].extended_price) > 0
    /\ need_llm = <<2>>
    /\ Val(result).line_items[1].confidence_score = 30
    /\ Val(result).line_items[1].price_per_base_unit = None

\* C16: every output line whose original unit is a pack/container or count
\* token and whose detected pack quantity is unknown (null or not positive)
\* has escalation_flag true, on the direct path and on the lookup path, also
\* when the lookup result itself said escalation = false.
C16_UnknownPackEscalates ==
    \A k \in DOMAIN line_outputs :
        ( /\ Upper(Strip(OrEmpty(line_outputs[k].original_uom)))
               \in UOM_PACK_CONTAINER \cup UOM_COUNT
          /\ \/ line_outputs[k].detected_pack_quantity = None
             \/ Val(line_outputs[k].detected_pack_quantity) <= 0 )
        => line_outputs[k].escalation_flag

\* C16 witness: a line sold by the case took the lookup path; the capability
\* answered no pack, confidence 0.9 and escalation = false, so that the
\* confidence of the line is above 0.6; the line is escalated.
C16_Witness ==
    \E k \in DOMAIN line_outputs :
        /\ raw_items[k].original_uom = Some("CS")
        /\ k \in DOMAIN lookup_results
        /\ lookup_results[k] = LookupResult("EA", None, 90, FALSE)
        /\ line_outputs[k].detected_pack_quantity = None
        /\ line_outputs[k].confidence_score >= 60
        /\ line_outputs[k].escalation_flag

\* C17 as the spec states it: on the deterministic path, where no value
\* comes from the external capability, every pack quantity is null or a
\* positive integer: parse_pack_from_text returns no 0 and no negative number,
\* a locally resolved LookupResult carries no non-positive pack, and no
\* LineItemOutput has detected_pack_quantity <= 0.
C17_PackPositive ==
    /\ \A t \in PackTexts : PackOf(t) = None \/ Val(PackOf(t)) > 0
    /\ \A k \in DOMAIN lookup_results \ Range(need_llm) :
        \/ lookup_results[k].detected_pack_quantity = None
        \/ Val(lookup_results[k].detected_pack_quantity) > 0
    /\ \A k \in DOMAIN line_outputs \ Range(need_llm) :
        \/ line_outputs[k].detected_pack_quantity = None
        \/ Val(line_outputs[k].detected_pack_quantity) > 0

\* C17 failing state: with no client and the lookup agent off, the generic
\* parser gave the line "GLOVES 0/CS" sold by the case, and the document was
\* returned with detected_pack_quantity 0 for it.
C17_ZeroPackOutput ==
    /\ ~has_client /\ ~use_lookup_agent
    /\ parser_used = "generic"
    /\ result # None
    /\ \E k \in DOMAIN Val(result).line_items :
        /\ raw_items[k].description = "GLOVES 0/CS"
        /\ PackOf(raw_items[k].description) = Some(0)
        /\ Val(result).line_items[k].detected_pack_quantity = Some(0)

\* C18: the line_items of an InvoiceResult hold exactly one LineItemOutput
\* per candidate raw item, in the order of extraction: the i-th output is
\* derived from the i-th candidate, and normalization drops, duplicates or
\* reorders no candidate, be it escalated, measurable or unpriced.
C18_OneOutputPerCandidate ==
    /\ Len(line_outputs) <= Len(raw_items)
    /\ \A k \in DOMAIN line_outputs :
        /\ line_outputs[k].item_description = raw_items[k].description
        /\ line_outputs[k].original_uom = raw_items[k].original_uom
        /\ line_outputs[k] \in LineOutputs(raw_items[k], k, lookup_results, supplier_name)
    /\ result # None
       => /\ Val(result).line_items = line_outputs
          /\ Len(Val(result).line_items) = Len(raw_items)

\* C18 witness: a document with a measurable line, escalated and unpriced,
\* followed by a line sold by the each was returned with both lines, in that
\* order.
C18_Witness ==
    /\ result # None
    /\ Len(raw_items) = 2
    /\ raw_items[1].description = "PIPE 1/2"
    /\ raw_items[2].description = "WIDGET"
    /\ Len(Val(result).line_items) = 2
    /\ Val(result).line_items[1].item_description = "PIPE 1/2"
    /\ Val(result).line_items[1].escalation_flag
    /\ Val(result).line_items[1].price_per_base_unit = None
    /\ Val(result).line_items[2].item_description = "WIDGET"
    /\ ~Val(result).line_items[2].escalation_flag

\* C19: with primary extraction, the fallback and the lookup agent all
\* disabled, processing a document makes no call to an external capability,
\* whatever lines the text gives; with the lookup agent disabled no
\* auxiliary-resolution result is produced for any line.
C19_DisabledMakesNoCall ==
    /\ (~use_llm_primary /\ ~use_llm_fallback /\ ~use_lookup_agent)
       => (extract_calls = 0 /\ extract_log = <<>> /\ aux_calls = 0)
    /\ ~use_lookup_agent
       => (lookup_results = <<>> /\ need_llm = <<>> /\ aux_calls = 0)

\* C19 witness: with a client configured and everything disabled, a document
\* whose line the policy would send to the capability was returned, and no
\* call was made.
C19_Witness ==
    /\ has_client
    /\ ~use_llm_primary /\ ~use_llm_fallback /\ ~use_lookup_agent
    /\ result # None
    /\ Len(raw_items) >= 1
    /\ \A k \in DOMAIN raw_items :
        /\ should_trigger_lookup(raw_items[k].original_uom,
                                 PackOf(raw_items[k].description),
                                 raw_items[k].description)
        /\ IsNone(PackOf(raw_items[k].description))
    /\ extract_calls = 0
    /\ aux_calls = 0

(***************************************************************************)
(* Properties of the generic parser path, checked under Spec               *)
(***************************************************************************)
\* the item lines "WIDGET A  Q  EA  U  Q*U" among the lines of the texts,
\* with their unit price U in cents
EaScenarioLines ==
    {[line |-> "WIDGET A  10  EA  2.50  25.00", unit_price |-> 250],
     [line |-> "WIDGET A  2  EA  0.01  0.02", unit_price |-> 1]}

\* C20: with no client, a returned document whose text is one item line with
\* a positive quantity Q, unit EA, unit price U, extended price Q x U and no
\* pack pattern in its description went through the generic parser and has
\* exactly one output line, with canonical_base_uom "EA", price_per_base_unit
\* U and escalation_flag false.
C20_EaScenario ==
    \A f \in EaScenarioLines :
        (~has_client /\ result # None /\ text = Some(<<f.line>>))
        => /\ parser_used = "generic"
           /\ Val(result).raw_metadata.parser = "generic"
           /\ Len(Val(result).line_items) = 1
           /\ Val(result).line_items[1].canonical_base_uom = "EA"
           /\ Val(result).line_items[1].price_per_base_unit = Some(100 * f.unit_price)
           /\ ~Val(result).line_items[1].escalation_flag

\* C20 failing state: with no client, the text "WIDGET A  2  EA  0.01  0.02"
\* was returned through the generic parser as one output line with
\* canonical_base_uom "EA" and escalation_flag false whose price_per_base_unit
\* is 0.02, twice the unit price of the line.
C20_PriceDoubled ==
    /\ ~has_client
    /\ result # None
    /\ text = Some(<<"WIDGET A  2  EA  0.01  0.02">>)
    /\ parser_used = "generic"
    /\ Len(Val(result).line_items) = 1
    /\ Val(raw_items[1].unit_price) = <<2, 1>>
    /\ Val(raw_items[1].extended_price) = 4
    /\ Val(result).line_items[1].canonical_base_uom = "EA"
    /\ Val(result).line_items[1].price_per_base_unit = Some(200)
    /\ ~Val(result).line_items[1].escalation_flag

\* C20 for the line of the scenario: with no client, the text
\* "WIDGET A  10  EA  2.50  25.00" was returned through the generic parser as
\* one output line with canonical_base_uom "EA", price_per_base_unit 2.50 and
\* escalation_flag false.
C20_ExampleReturned ==
    /\ ~has_client
    /\ result # None
    /\ text = Some(<<"WIDGET A  10  EA  2.50  25.00">>)
    /\ parser_used = "generic"
    /\ Len(Val(result).line_items) = 1
    /\ Val(result).line_items[1].canonical_base_uom = "EA"
    /\ Val(result).line_items[1].price_per_base_unit = Some(25000)
    /\ ~Val(result).line_items[1].escalation_flag

(***************************************************************************)
(* Properties of the generic table parser, checked under SpecCalls         *)
(***************************************************************************)
\* the (quantity, extended_price) pair of an item
PairOf(item) == <<item.quantity, item.extended_price>>

\* the lines of a text that give an item with a positive extended price
ItemLines(lines) ==
    {i \in DOMAIN lines : /\ ~IsNone(LineTable[lines[i]])
                          /\ Val(Val(LineTable[lines[i]]).extended_price) > 0}

\* the item lines whose pair no earlier item line has
FirstLines(lines) ==
    {i \in ItemLines(lines) :
        \A j \in ItemLines(lines) :
            j < i => PairOf(Val(LineTable[lines[j]])) # PairOf(Val(LineTable[lines[i]]))}

\* C21: the items extract_line_items returns are the items of the lines of
\* the text in the order of the lines, no two of them have the same
\* (quantity, extended_price) pair, and of the lines that give the same pair
\* exactly the first is kept.
C21_OrderedAndDeduplicated ==
    (call # None /\ Val(call).fn = "extract_line_items" /\ ret # None)
    => /\ \A a, b \in DOMAIN Val(ret) :
            a # b => PairOf(Val(ret)[a]) # PairOf(Val(ret)[b])
       /\ Len(Val(ret)) = Cardinality(FirstLines(Val(call).lines))
       /\ \E f \in [DOMAIN Val(ret) -> FirstLines(Val(call).lines)] :
            /\ \A a, b \in DOMAIN Val(ret) : a < b => f[a] < f[b]
            /\ \A a \in DOMAIN Val(ret) :
                  LineTable[Val(call).lines[f[a]]] = Some(Val(ret)[a])

\* C21 witness: a text of two different lines with the same quantity and
\* extended price was parsed, and only the item of the first line was
\* returned.
C21_Witness ==
    /\ call # None
    /\ Val(call).fn = "extract_line_items"
    /\ ret # None
    /\ Val(call).lines = <<"GLOVES  2  CS  12.00  24.00", "GLOVES 25/CS  2  CS  12.00  24.00">>
    /\ Len(Val(ret)) = 1
    /\ Val(ret)[1].description = "GLOVES"
    /\ PairOf(Val(ret)[1]) = <<2, Some(2400)>>

\* C22 as the spec states it: every returned item with a unit price, an
\* extended price and a positive quantity has quantity x unit_price within
\* 5% of the extended price, whichever strategy built it.
C22_WithinFivePercent ==
    (call # None /\ Val(call).fn = "extract_line_items" /\ ret # None)
    => \A k \in DOMAIN Val(ret) :
        (/\ ~IsNone(Val(ret)[k].unit_price)
         /\ ~IsNone(Val(ret)[k].extended_price)
         /\ Val(ret)[k].quantity > 0)
        => 20 * Abs(Val(ret)[k].quantity * Val(Val(ret)[k].unit_price)[1]
                    - Val(Val(ret)[k].extended_price) * Val(Val(ret)[k].unit_price)[2])
           <= Val(Val(ret)[k].extended_price) * Val(Val(ret)[k].unit_price)[2]

\* C22 failing state: the line "WIDGET 2.50 25.00" was parsed by the regex
\* pass (line_confidence 0.65) into an item with quantity 2, unit price 2.50
\* and extended price 25.00: the product 5.00 is 80% away from 25.00.
C22_FallbackInconsistent ==
    /\ call # None
    /\ Val(call).fn = "extract_line_items"
    /\ ret # None
    /\ Val(call).lines = <<"WIDGET 2.50 25.00">>
    /\ Len(Val(ret)) = 1
    /\ Val(ret)[1].line_confidence = 65
    /\ Val(ret)[1].quantity = 2
    /\ Val(ret)[1].unit_price = Some(<<250, 1>>)
    /\ Val(ret)[1].extended_price = Some(2500)

\* C22 for the column strategy: every returned item built by it
\* (line_confidence 0.75) is within the 5% tolerance.
C22_ColumnsWithinFivePercent ==
    (call # None /\ Val(call).fn = "extract_line_items" /\ ret # None)
    => \A k \in DOMAIN Val(ret) :
        (/\ Val(ret)[k].line_confidence = 75
         /\ ~IsNone(Val(ret)[k].unit_price)
         /\ Val(ret)[k].quantity > 0)
        => 20 * Abs(Val(ret)[k].quantity * Val(Val(ret)[k].unit_price)[1]
                    - Val(Val(ret)[k].extended_price) * Val(Val(ret)[k].unit_price)[2])
           <= Val(Val(ret)[k].extended_price) * Val(Val(ret)[k].unit_price)[2]

(***************************************************************************)
(* Properties of the unit classes and of normalize_uom, checked under      *)
(* SpecCalls                                                               *)
(***************************************************************************)

\* the classes in the order in which normalize_uom checks them
UnitClasses ==
    <<UOM_MEASURABLE, UOM_EA_SAFE, UOM_FIXED_MULT, UOM_PACK_CONTAINER, UOM_COUNT>>

ClassesOf(key) == {i \in DOMAIN UnitClasses : KeyIn(key, UnitClasses[i])}

NormReturned == ~IsNone(call) /\ Val(call).fn = "normalize_uom" /\ ~IsNone(ret)

\* the normalized token of the unit of the call: trimmed, upper-cased,
\* alias-collapsed
CalledKey == NormalizeUomKey(OrEmpty(Val(call).original_uom))

\* the pack that the description or the unit text of the call gives
TextPack ==
    OrInt(PackOf(Strip(OrEmpty(Val(call).description))),
          PackOf(OrEmpty(Val(call).original_uom)))

C24_PerClass ==
    NormReturned =>
        LET r == Val(ret)
            key == CalledKey
            found == ~IsNone(TextPack)
        IN  /\ KeyIn(key, UOM_EA_SAFE) =>
                /\ r.pack_quantity = (IF found THEN TextPack ELSE Some(1))
                /\ r.confidence = 100
            /\ KeyIn(key, {"PR"}) =>
                /\ r.pack_quantity = (IF found THEN TextPack ELSE Some(2))
                /\ r.confidence = 95
            /\ KeyIn(key, {"DZ"}) =>
                /\ r.pack_quantity = (IF found THEN TextPack ELSE Some(12))
                /\ r.confidence = 95
            /\ KeyIn(key, {"GROSS"}) =>
                /\ r.pack_quantity = (IF found THEN TextPack ELSE Some(144))
                /\ r.confidence = 95
            /\ KeyIn(key, UOM_FIXED_MULT) => Val(key) \in {"PR", "DZ", "GROSS"}
            /\ KeyIn(key, UOM_PACK_CONTAINER) =>
                /\ r.pack_quantity = TextPack
                /\ r.confidence = (IF found THEN 85 ELSE 50)
            /\ KeyIn(key, UOM_COUNT) =>
                /\ r.pack_quantity = TextPack
                /\ r.confidence = (IF found THEN 70 ELSE 40)
            /\ KeyIn(key, UOM_MEASURABLE) =>
                /\ r.pack_quantity = None
                /\ r.confidence = 0
                /\ ~r.convertible
            /\ ~r.convertible => KeyIn(key, UOM_MEASURABLE)
            /\ KeyIn(key, UOM_EA_SAFE \cup UOM_FIXED_MULT \cup UOM_PACK_CONTAINER
                          \cup UOM_COUNT) =>
                /\ r.convertible
                /\ found => Val(TextPack) > 0

\* normalize_uom has returned the multiplier 12 for DOZEN without a text pack
C24_Witness ==
    /\ NormReturned
    /\ Val(call).original_uom = Some("DOZEN")
    /\ IsNone(TextPack)
    /\ Val(ret) = NormResult(Some(12), 95, TRUE)

\* C25: for an unrecognized unit token (empty or in no class) normalize_uom
\* returns the canonical unit, the pack quantity (the text pack when one
\* exists, otherwise 1) and the convertible flag that it returns for "EA" with
\* the same description, with confidence 0.6 when a text pack exists and 0.4
\* otherwise
C25_UnknownAsEa ==
    (NormReturned /\ ClassesOf(CalledKey) = {}) =>
        LET r == Val(ret)
            ea == normalize_uom(Some("EA"), Val(call).description)
        IN  /\ r.canonical_uom = ea.canonical_uom
            /\ r.pack_quantity = ea.pack_quantity
            /\ r.pack_quantity = (IF TruthyInt(TextPack) THEN TextPack ELSE Some(1))
            /\ r.convertible = ea.convertible
            /\ r.confidence = (IF TruthyInt(TextPack) THEN 60 ELSE 40)

\* normalize_uom has returned no pack quantity for the unit XY and a
\* description without a pack, where it returns the pack quantity 1 for EA
C25_UnknownWithoutPack ==
    /\ NormReturned
    /\ Val(call) = NormCall(Some("XY"), Some("GLOVES"))
    /\ ClassesOf(CalledKey) = {}
    /\ Val(ret) = NormResult(None, 40, TRUE)
    /\ normalize_uom(Some("EA"), Some("GLOVES")) = NormResult(Some(1), 100, TRUE)

\* what does hold for an unrecognized unit token: the canonical unit and the
\* convertible flag of "EA", the text pack or no pack quantity at all, and
\* the confidence 0.6 with a text pack and 0.4 without
C25_UnknownBranch ==
    (NormReturned /\ ClassesOf(CalledKey) = {}) =>
        LET r == Val(ret)
            ea == normalize_uom(Some("EA"), Val(call).description)
        IN  /\ r.canonical_uom = ea.canonical_uom
            /\ r.convertible = ea.convertible
            /\ r.pack_quantity = TextPack
            /\ r.confidence = (IF IsNone(TextPack) THEN 40 ELSE 60)

(***************************************************************************)
(* Properties of parse_pack_from_text, checked under SpecCalls             *)
(***************************************************************************)

PackReturned == ~IsNone(call) /\ Val(call).fn = "parse_pack_from_text" /\ ~IsNone(ret)

\* the value each pattern gives for a text, None when it does not match, in
\* the priority order of the list: "<n> PR/DP" or "<n> PR/BG", "1/PR",
\* "<n>/<container>", "PK<n>", "<container>/<n>", "<n>EA", "<n>PR",
\* "<container><n>", "100/DISP" or "100/BG"
Listed(t) ==
    <<FirstReturn(<<Twice(PACK_PR_DP(t)), Twice(PACK_PR_BG(t))>>),
      When(PACK_1_PR(t), 2),
      PACK_NUM_DENOM(t),
      PACK_PK_NUM(t),
      PACK_DENOM_NUM(t),
      PACK_NUM_EA(t),
      Twice(PACK_NUM_PR(t)),
      PACK_BX_CS_NUM(t),
      When(PACK_100_DISP(t) \/ PACK_100_BG(t), 100)>>

\* Listed, computed once for the texts of the calls
ListedTable == [t \in PackCallTexts |-> Listed(t)]

\* the places in the list of the patterns that match a text
MatchingTable ==
    [t \in PackCallTexts |-> {k \in DOMAIN ListedTable[t] : ~IsNone(ListedTable[t][k])}]

Matching(t) == MatchingTable[t]

\* C26: parse_pack_from_text returns the value of the first pattern of the
\* list that matches anywhere in the text and null when none matches: a text
\* that two patterns match gets the value of the earlier one, "25/CS" gives
\* 25, "1/PR" gives 2, "100/DISP" gives 100, "PK10" gives 10 and
\* "no numbers here" gives null
C26_PriorityOrder ==
    PackReturned =>
        LET t == Val(call).txt
            r == Val(ret)
        IN  /\ Matching(t) = {} => r = None
            /\ \A k \in Matching(t) :
                   (\A j \in Matching(t) : k <= j) => r = ListedTable[t][k]
            /\ t = "25/CS" => r = Some(25)
            /\ t = "1/PR" => r = Some(2)
            /\ t = "100/DISP" => r = Some(100)
            /\ t = "PK10" => r = Some(10)
            /\ t = "no numbers here" => r = None
            /\ t = "12 PR/DP 1/PR" => r = Some(24)
            /\ t = "1/PR 25/CS" => r = Some(2)
            /\ t = "PK10 25/CS" => r = Some(25)
            /\ t = "CS/24 PK10" => r = Some(10)
            /\ t = "500EA CS/24" => r = Some(24)
            /\ t = "50 PR 500EA" => r = Some(500)
            /\ t = "BX50 50 PR" => r = Some(100)

\* parse_pack_from_text has returned 25 for a text that "<n>/<container>"
\* matches with 25 and "PK<n>" with 10
C26_Witness ==
    /\ PackReturned
    /\ Val(call).txt = "PK10 25/CS"
    /\ Matching(Val(call).txt) = {3, 4}
    /\ ListedTable[Val(call).txt][4] = Some(10)
    /\ Val(ret) = Some(25)

\* the texts "<n>/PR" with a positive integer n
IsSlashPR(t) ==
    /\ Len(t) > 3
    /\ SubSeq(t, Len(t) - 2, Len(t)) = "/PR"
    /\ AllIn(SubSeq(t, 1, Len(t) - 3), DigitSet)
    /\ ToInt(SubSeq(t, 1, Len(t) - 3)) > 0

SlashPRNumber(t) == ToInt(SubSeq(t, 1, Len(t) - 3))

\* C27: for a text "<n>/PR" with a positive integer n, parse_pack_from_text
\* returns 2 for n = 1 and n for every other n, also for an n of several
\* digits that ends in 1
C27_OnlyOnePair ==
    (PackReturned /\ IsSlashPR(Val(call).txt)) =>
        Val(ret) = Some(IF SlashPRNumber(Val(call).txt) = 1 THEN 2
                        ELSE SlashPRNumber(Val(call).txt))

\* parse_pack_from_text has returned 2 for "11/PR"
C27_ElevenPairs ==
    /\ PackReturned
    /\ Val(call).txt = "11/PR"
    /\ IsSlashPR(Val(call).txt)
    /\ SlashPRNumber(Val(call).txt) = 11
    /\ Val(ret) = Some(2)

\* what does hold for "<n>/PR": 2 when the digits of n end in 1, n otherwise
C27_LastDigitOne ==
    (PackReturned /\ IsSlashPR(Val(call).txt)) =>
        Val(ret) = Some(IF SlashPRNumber(Val(call).txt) % 10 = 1 THEN 2
                        ELSE SlashPRNumber(Val(call).txt))

(***************************************************************************)
(* Properties of should_trigger_lookup over aliases, checked under         *)
(* SpecCalls                                                               *)
(***************************************************************************)

TriggerReturned == ~IsNone(call) /\ Val(call).fn = "should_trigger_lookup" /\ ~IsNone(ret)

\* the units of the calls that alias-collapse to the canonical unit of u
AliasesOf(u) ==
    {v \in TriggerUnits : /\ ~IsNone(NormalizeUomKey(OrEmpty(v)))
                          /\ NormalizeUomKey(OrEmpty(v)) = NormalizeUomKey(OrEmpty(u))}

\* C28: should_trigger_lookup returns the same answer for two raw unit
\* tokens that alias-collapse to the same canonical unit (DZ, DOZ, DOZEN; PR,
\* PAIR; EA, EACH, PCS), given the same pack quantity and description
C28_AliasesAgree ==
    TriggerReturned =>
        \A v \in AliasesOf(Val(call).original_uom) :
            should_trigger_lookup(v, Val(call).pack_from_parsing, Val(call).description)
                = Val(ret)

\* should_trigger_lookup has returned TRUE for DOZ without a pack and a
\* description with a slash pattern, where it returns FALSE for DZ and DOZEN
C28_DozTriggers ==
    /\ TriggerReturned
    /\ Val(call) = TriggerCall(Some("DOZ"), None, "GLOVES 0/CS")
    /\ AliasesOf(Some("DOZ")) = {Some("DZ"), Some("DOZ"), Some("DOZEN")}
    /\ Val(ret) = TRUE
    /\ ~should_trigger_lookup(Some("DZ"), None, "GLOVES 0/CS")
    /\ ~should_trigger_lookup(Some("DOZEN"), None, "GLOVES 0/CS")

\* what does hold: the aliases of one canonical unit other than DOZ agree
C28_AliasesButDozAgree ==
    (TriggerReturned /\ Val(call).original_uom # Some("DOZ")) =>
        \A v \in AliasesOf(Val(call).original_uom) \ {Some("DOZ")} :
            should_trigger_lookup(v, Val(call).pack_from_parsing, Val(call).description)
                = Val(ret)

(***************************************************************************)
(* Properties of the policy and the price, checked under SpecCalls         *)
(***************************************************************************)
\* C14 as the spec states it: should_trigger_lookup returns false whenever a
\* safe condition holds (unit measurable; pack known and positive; unit
\* base-unit-equivalent and none of "/", "PK", "PER" in the description; unit
\* PR/PAIR with no pack and no "/" in the description; unit DZ/DOZEN), and
\* when none holds it returns true exactly when the unit token is empty, or
\* the unit is of the pack/container or count class and the pack is unknown,
\* or the description contains a slash pack pattern, "PK<n>" or "<n> PR".
C14_TriggerPolicy ==
    (ret # None /\ Val(call).fn = "should_trigger_lookup")
    => LET raw  == Upper(Strip(OrEmpty(Val(call).original_uom)))
           desc == Strip(Val(call).description)
           pack == Val(call).pack_from_parsing
           safe ==
               \/ raw \in UOM_MEASURABLE
               \/ pack # None /\ Val(pack) > 0
               \/ /\ raw \in UOM_EA_SAFE
                  /\ \A w \in {"/", "PK", "PER"} : ~Contains(Upper(desc), w)
               \/ raw \in {"PR", "PAIR"} /\ pack = None /\ ~Contains(desc, "/")
               \/ raw \in {"DZ", "DOZEN"}
           trigger ==
               \/ raw = ""
               \/ raw \in UOM_PACK_CONTAINER \cup UOM_COUNT /\ pack = None
               \/ Pat_NUM_SLASH(desc, Positions(desc)) # {}
               \/ Pat_PK_OR_PR(desc, Positions(desc)) # {}
       IN  Val(ret) = (~safe /\ trigger)

\* C14 failing state: for the unit "CS", the parsed pack 0 and the description
\* "GLOVES 0/CS", where no safe condition holds and the description contains
\* a slash pack pattern, the policy answered false.
C14_ZeroPackNotTriggered ==
    /\ ~IsNone(call)
    /\ Val(call).fn = "should_trigger_lookup"
    /\ ret = Some(FALSE)
    /\ Val(call).original_uom = Some("CS")
    /\ Val(call).pack_from_parsing = Some(0)
    /\ Val(call).description = "GLOVES 0/CS"

\* C15 as the spec states it: price_per_base_unit returns (null, unsafe) when
\* the extended price is missing or <= 0 or the quantity is <= 0, and in
\* every other call it divides the extended price by the total base units:
\* Q x P for a known positive pack P, else Q x the fixed multiplier for
\* PR/DZ/GROSS-class units, else Q for base-unit-equivalent and unknown units,
\* else Q with unsafe = true for pack/container and count units.
C15_PriceRuleAsStated ==
    ( /\ ret # None
      /\ Val(call).fn = "price_per_base_unit"
      /\ ~is_measurable_uom(Val(call).original_uom) )
    => LET e    == Val(call).extended_price
           q    == Val(call).quantity
           pk   == Val(call).pack_quantity
           key  == NormalizeUomKey(Upper(Strip(OrEmpty(Val(call).original_uom))))
           mult == IF key \in {Some("PR"), Some("PAIR")} THEN 2
                   ELSE IF key \in {Some("DZ"), Some("DOZ"), Some("DOZEN")} THEN 12
                   ELSE IF key \in {Some("GR"), Some("GROSS")} THEN 144 ELSE 1
           base == IF pk # None /\ Val(pk) > 0 THEN q * Val(pk) ELSE q * mult
       IN  IF e = None \/ Val(e) <= 0 \/ q <= 0
           THEN Val(ret) = PriceResult(None, TRUE)
           ELSE /\ Val(ret).price = Some(<<Val(e), base>>)
                /\ Val(ret).unsafe
                     = ( /\ ~(pk # None /\ Val(pk) > 0)
                         /\ KeyIn(key, UOM_PACK_CONTAINER \cup UOM_COUNT) )

\* C15 amended: the same rule, with (null, unsafe = true) also returned when
\* the caller passes convertible = false.
C15_PriceRule ==
    ( /\ ret # None
      /\ Val(call).fn = "price_per_base_unit"
      /\ ~is_measurable_uom(Val(call).original_uom) )
    => LET e    == Val(call).extended_price
           q    == Val(call).quantity
           pk   == Val(call).pack_quantity
           key  == NormalizeUomKey(Upper(Strip(OrEmpty(Val(call).original_uom))))
           mult == IF key \in {Some("PR"), Some("PAIR")} THEN 2
                   ELSE IF key \in {Some("DZ"), Some("DOZ"), Some("DOZEN")} THEN 12
                   ELSE IF key \in {Some("GR"), Some("GROSS")} THEN 144 ELSE 1
           base == IF pk # None /\ Val(pk) > 0 THEN q * Val(pk) ELSE q * mult
       IN  IF ~Val(call).convertible \/ e = None \/ Val(e) <= 0 \/ q <= 0
           THEN Val(ret) = PriceResult(None, TRUE)
           ELSE /\ Val(ret).price = Some(<<Val(e), base>>)
                /\ Val(ret).unsafe
                     = ( /\ ~(pk # None /\ Val(pk) > 0)
                         /\ KeyIn(key, UOM_PACK_CONTAINER \cup UOM_COUNT) )

\* C15 witness: the call for "DZ" with quantity 2, extended price 24.00 and
\* no pack returned 24.00 / 24, a price of 1.00, and a safe conversion.
C15_Witness ==
    /\ Val(call).fn = "price_per_base_unit"
    /\ Val(call).original_uom = Some("DZ")
    /\ Val(call).quantity = 2
    /\ Val(call).extended_price = Some(2400)
    /\ Val(call).pack_quantity = None
    /\ Val(call).convertible
    /\ ret = Some(PriceResult(Some(<<2400, 24>>), FALSE))

(***************************************************************************)
(* The document pipeline is the default specification                      *)
(***************************************************************************)
Init == PipelineInit

Next == PipelineNext

Spec == Init /\ [][Next]_vars

====
